---- MODULE Spec2Model ----
(***************************************************************************)
(* Cafeteria ordering backend: the orders, order_items,                    *)
(* order_status_history, payments and notifications tables, their          *)
(* triggers, constraints and row-level-security policies, and the client   *)
(* statements of documentation/database/queries/common-operations.sql.     *)
(*                                                                         *)
(* One action is one SQL statement or transaction, executed atomically by  *)
(* the database: its BEFORE triggers, policy checks, constraints and AFTER *)
(* triggers are part of the action.  A statement that raises an error is   *)
(* rolled back whole and leaves the tables as they were.                   *)
(*                                                                         *)
(* Money is in cents.  Row ids (uuid_generate_v4) are positions in the     *)
(* table's sequence.  Timestamps are abstracted to NULL / NOW.             *)
(***************************************************************************)
EXTENDS Integers, Sequences, FiniteSets, TLC

VARIABLES
  orders,                \* table orders, in insertion order (id = position)
  order_items,           \* table order_items
  order_status_history,  \* table order_status_history
  payments,              \* table payments
  notifications,         \* table notifications
  menu_items,            \* table menu_items: price in cents and availability, by name
  profiles,              \* table profiles: role and full_name, by user_id
  menu_categories,       \* table menu_categories: active, by name
  cafeteria_settings,    \* table cafeteria_settings: value, by key
  drawn,                 \* per session: NEW.pickup_code of an INSERT INTO orders whose
                         \* BEFORE INSERT trigger has run and whose row is not yet stored
  scanned,               \* per session: the rows an UPDATE of orders by pickup code has
                         \* found and not yet locked and updated
  auth,                  \* the app: how supabase.auth.getSession() answers
  console,               \* the app: the messages of console.error
  test_results           \* the app: the TestResult values the connection tests returned

vars == <<orders, order_items, order_status_history, payments, notifications,
         menu_items, profiles, menu_categories, cafeteria_settings, drawn, scanned,
         auth, console, test_results>>

\* the statements in flight
in_flight == <<drawn, scanned>>

\* the state of the mobile app
app == <<auth, console, test_results>>

tables == <<orders, order_items, order_status_history, payments, notifications>>

\* the tables only profile and catalogue statements write
admin_tables == <<profiles, menu_categories, cafeteria_settings>>

\* the tables the order statements write, as one value: a statement maps one
\* such value to the next
DB ==
  [orders |-> orders, order_items |-> order_items,
   order_status_history |-> order_status_history, payments |-> payments,
   notifications |-> notifications]

----------------------------------------------------------------------------
(* Bounds of the model *)

MaxOrders == 2
MaxHistory == 2
MaxItems == 5
MaxReads == 3
MaxLog == 3
MaxNotifications == 3

----------------------------------------------------------------------------
(* Values *)

NULL == "NULL"
NOW == "NOW"

\* the value DEFAULT NOW() gives created_at and updated_at in the inserted row;
\* NOW in a later statement is a later timestamp
AT_INSERT == "AT_INSERT"

\* the principals (auth.uid()) and their profiles rows
Users == {"ana", "ben", "sam", "ada"}

seed_profiles ==
  [u \in Users |->
     [role      |-> IF u = "sam" THEN "staff" ELSE IF u = "ada" THEN "admin" ELSE "student",
      full_name |-> "User"]]

\* the identities of auth.users: the principals, and one that signs up later
Identities == Users \cup {"eve"}

\* CHECK (role IN (...)) of table profiles
Roles == {"student", "staff", "admin"}

\* full_name values of sign-up metadata and profile updates
FullNames == {"User", "Ana"}

\* the principals that place orders in the model
Customers == {u \in Users : seed_profiles[u].role = "student"}

\* the customers orders are placed for; the other customer owns no order
OrderOwners == {"ana"}

Sessions == {"s1", "s2"}

\* CHECK (status IN (...)) of table orders
Statuses == {"placed", "confirmed", "preparing", "ready", "completed", "cancelled"}

\* status NOT IN ('completed', 'cancelled')
TerminalStatuses == {"completed", "cancelled"}

\* seed menu: price in cents and availability
seed_menu_items ==
  [m \in {"Cheeseburger", "French Fries"} |->
     IF m = "Cheeseburger"
       THEN [category |-> "Entrees", price |-> 900, available |-> TRUE]
       ELSE [category |-> "Sides", price |-> 350, available |-> TRUE]]

\* seed categories: active or not, by name
seed_menu_categories == [c \in {"Entrees", "Sides"} |-> [active |-> TRUE]]

\* default settings: the value of max_concurrent_orders
seed_cafeteria_settings == [k \in {"max_concurrent_orders"} |-> [value |-> 50]]

\* values FLOOR(RANDOM() * 10000) takes in the model
RandomDraws == {7, 42}

\* statuses a client submits in INSERT INTO orders
InsertStatuses == {"placed", "completed"}

\* total_amount values a client submits: 16.00, the sum of the items of ItemLists,
\* and 24.50, the literal of the place-order example
Totals == {1600, 2450}

\* pickup_code values a client submits in INSERT INTO orders (NULL: none)
GivenCodes == {NULL, "0007"}

\* the same, with a text of two letters among them
ClientCodes == GivenCodes \cup {"AB"}

\* the VALUES lists of INSERT INTO order_items a client submits with an order
ItemLists ==
  { << [menu_item_id |-> "Cheeseburger", quantity |-> 1, unit_price |-> 900],
       [menu_item_id |-> "French Fries", quantity |-> 2, unit_price |-> 350] >> }

----------------------------------------------------------------------------
(* Functions of the schema *)

is_staff(p_user_id) ==
  /\ p_user_id \in DOMAIN profiles
  /\ profiles[p_user_id].role \in {"staff", "admin"}

is_admin(p_user_id) ==
  /\ p_user_id \in DOMAIN profiles
  /\ profiles[p_user_id].role = "admin"

DigitText(d) ==
  CASE d = 0 -> "0" [] d = 1 -> "1" [] d = 2 -> "2" [] d = 3 -> "3" [] d = 4 -> "4"
    [] d = 5 -> "5" [] d = 6 -> "6" [] d = 7 -> "7" [] d = 8 -> "8" [] d = 9 -> "9"

\* n::TEXT for a non-negative integer
RECURSIVE ToText(_)
ToText(n) == IF n < 10 THEN DigitText(n) ELSE ToText(n \div 10) \o DigitText(n % 10)

\* LPAD(str, length, fill) for a one-character fill (str no longer than length here)
RECURSIVE LPAD(_, _, _)
LPAD(str, length, fill) ==
  IF Len(str) >= length THEN str ELSE LPAD(fill \o str, length, fill)

\* SUM(quantity * unit_price) over the order's items, 0 when there are none
RECURSIVE SumItems(_, _)
SumItems(items, p_order_id) ==
  IF items = << >> THEN 0
  ELSE (IF Head(items).order_id = p_order_id
          THEN Head(items).quantity * Head(items).unit_price ELSE 0)
       + SumItems(Tail(items), p_order_id)

calculate_order_total(items, p_order_id) == SumItems(items, p_order_id)

----------------------------------------------------------------------------
(* Row-level-security policies.  uid is auth.uid().  The policies of one    *)
(* command on one table are permissive, so they combine with OR.  A policy  *)
(* FOR UPDATE that states only USING has that expression as its WITH CHECK  *)
(* too: the row as updated must satisfy it, or the statement raises.        *)

\* the policy without its condition on the owner
UsersCanViewOwnOrders_Anyone(uid, row) == TRUE

UsersCanViewOwnOrders(uid, row) == uid = row.user_id

StaffCanViewAllOrders(uid, row) == is_staff(uid)

UsersCanCreateOwnOrders(uid, row) == uid = row.user_id

UsersCanUpdateOwnPendingOrders(uid, row) ==
  uid = row.user_id /\ row.status \notin TerminalStatuses

StaffCanUpdateOrderStatus(uid, row) == is_staff(uid)

\* the rows of orders a SELECT (or the WHERE of an UPDATE) by uid sees
OrdersSelectUsing(uid, row) ==
  UsersCanViewOwnOrders(uid, row) \/ StaffCanViewAllOrders(uid, row)

\* the rows of orders an UPDATE by uid may touch
OrdersUpdateUsing(uid, row) ==
  /\ OrdersSelectUsing(uid, row)
  /\ UsersCanUpdateOwnPendingOrders(uid, row) \/ StaffCanUpdateOrderStatus(uid, row)

\* the rows an UPDATE by uid may leave behind
OrdersUpdateWithCheck(uid, row) ==
  UsersCanUpdateOwnPendingOrders(uid, row) \/ StaffCanUpdateOrderStatus(uid, row)

\* profiles FOR SELECT; a row is given by its user_id and its columns
UsersCanViewOwnProfile(uid, user_id, row) == uid = user_id

StaffCanViewAllProfiles(uid, user_id, row) == is_staff(uid)

ProfilesSelectUsing(uid, user_id, row) ==
  UsersCanViewOwnProfile(uid, user_id, row) \/ StaffCanViewAllProfiles(uid, user_id, row)

\* profiles FOR UPDATE
UsersCanUpdateOwnProfileUsing(uid, user_id, row) == uid = user_id

\* the WITH CHECK without its condition on role
UsersCanUpdateOwnProfileWithCheck_AnyRole(uid, user_id, row, profs) == uid = user_id

\* WITH CHECK on the new row; profs is the table the statement reads, in which
\* SELECT role FROM profiles WHERE user_id = auth.uid() finds the role uid has
UsersCanUpdateOwnProfileWithCheck(uid, user_id, row, profs) ==
  /\ uid = user_id
  /\ uid \in DOMAIN profs
  /\ row.role = profs[uid].role

AdminsCanUpdateProfiles(uid, user_id, row) == is_admin(uid)

\* profiles FOR INSERT
UsersCanCreateOwnProfile(uid, user_id, row) == uid = user_id

\* order_items FOR INSERT; ords is the orders table the statement sees
\* menu_items FOR SELECT (every principal of the model is authenticated)
AnyoneCanViewAvailableMenuItems(uid, item) == item.available

StaffCanViewAllMenuItems(uid, item) == is_staff(uid)

MenuItemsSelectUsing(uid, item) ==
  AnyoneCanViewAvailableMenuItems(uid, item) \/ StaffCanViewAllMenuItems(uid, item)

\* menu_items FOR INSERT, UPDATE, DELETE
AdminsCanInsertMenuItems(uid, item) == is_admin(uid)

\* the policy opened to staff
AdminsCanUpdateMenuItems_Staff(uid, item) == is_staff(uid)

AdminsCanUpdateMenuItems(uid, item) == is_admin(uid)

AdminsCanDeleteMenuItems(uid, item) == is_admin(uid)

\* menu_categories FOR SELECT
AnyoneCanViewActiveMenuCategories(uid, row) == row.active

StaffCanViewAllMenuCategories(uid, row) == is_staff(uid)

MenuCategoriesSelectUsing(uid, row) ==
  AnyoneCanViewActiveMenuCategories(uid, row) \/ StaffCanViewAllMenuCategories(uid, row)

\* menu_categories FOR INSERT, UPDATE, DELETE
AdminsCanInsertMenuCategories(uid, row) == is_admin(uid)

AdminsCanUpdateMenuCategories(uid, row) == is_admin(uid)

AdminsCanDeleteMenuCategories(uid, row) == is_admin(uid)

\* cafeteria_settings FOR SELECT (every principal of the model is authenticated)
AnyoneCanViewCafeteriaSettings(uid, row) == TRUE

\* cafeteria_settings FOR INSERT, UPDATE, DELETE
AdminsCanInsertCafeteriaSettings(uid, row) == is_admin(uid)

AdminsCanUpdateCafeteriaSettings(uid, row) == is_admin(uid)

AdminsCanDeleteCafeteriaSettings(uid, row) == is_admin(uid)

UsersCanAddItemsToOwnOrders(uid, item, ords) ==
  \E i \in 1..Len(ords) :
    /\ ords[i].id = item.order_id
    /\ ords[i].user_id = uid
    /\ ords[i].status = "placed"

\* payments FOR INSERT
UsersCanCreatePaymentsForOwnOrders(uid, payment, ords) ==
  \E i \in 1..Len(ords) :
    /\ ords[i].id = payment.order_id
    /\ ords[i].user_id = uid

\* order_items FOR SELECT; the subquery on orders reads what uid may see
UsersCanViewOwnOrderItems(uid, item, ords) ==
  \E i \in 1..Len(ords) :
    /\ OrdersSelectUsing(uid, ords[i])
    /\ ords[i].id = item.order_id
    /\ ords[i].user_id = uid

StaffCanViewAllOrderItems(uid, item) == is_staff(uid)

OrderItemsSelectUsing(uid, item, ords) ==
  UsersCanViewOwnOrderItems(uid, item, ords) \/ StaffCanViewAllOrderItems(uid, item)

\* an order_items FOR UPDATE policy for the owner, which the source does not have
OrderItemsUpdateUsing_Owner(uid, item, ords) == UsersCanViewOwnOrderItems(uid, item, ords)

\* order_items has no FOR UPDATE policy: with row-level security enabled no
\* row qualifies
OrderItemsUpdateUsing(uid, item, ords) == FALSE

\* order_status_history FOR SELECT
UsersCanViewOwnOrderHistory(uid, h, ords) ==
  \E i \in 1..Len(ords) :
    /\ OrdersSelectUsing(uid, ords[i])
    /\ ords[i].id = h.order_id
    /\ ords[i].user_id = uid

StaffCanViewAllOrderHistory(uid, h) == is_staff(uid)

OrderHistorySelectUsing(uid, h, ords) ==
  UsersCanViewOwnOrderHistory(uid, h, ords) \/ StaffCanViewAllOrderHistory(uid, h)

\* order_status_history FOR INSERT
SystemCanInsertOrderHistory(uid, h) == TRUE

\* order_status_history has no FOR UPDATE policy: with row-level security
\* enabled no row qualifies
OrderHistoryUpdateUsing(uid, h) == FALSE

\* a FOR DELETE policy for staff, which the source does not have
OrderHistoryDeleteUsing_Staff(uid, h) == is_staff(uid)

\* order_status_history has no FOR DELETE policy
OrderHistoryDeleteUsing(uid, h) == FALSE

\* payments FOR SELECT
UsersCanViewOwnPayments(uid, payment, ords) ==
  \E i \in 1..Len(ords) :
    /\ OrdersSelectUsing(uid, ords[i])
    /\ ords[i].id = payment.order_id
    /\ ords[i].user_id = uid

StaffCanViewAllPayments(uid, payment) == is_staff(uid)

PaymentsSelectUsing(uid, payment, ords) ==
  UsersCanViewOwnPayments(uid, payment, ords) \/ StaffCanViewAllPayments(uid, payment)

----------------------------------------------------------------------------
(* Triggers *)

\* the codes the loop of generate_pickup_code can return when uid inserts into
\* the orders table ords: a draw leaves the loop when no order outside
\* completed/cancelled holds it, among the rows the SELECT policies show uid
\* (the function runs with the rights of the inserting user)
generate_pickup_code(ords, uid) ==
  { new_code \in { LPAD(ToText(n), 4, "0") : n \in RandomDraws } :
      ~ \E i \in 1..Len(ords) :
          /\ OrdersSelectUsing(uid, ords[i])
          /\ ords[i].pickup_code = new_code
          /\ ords[i].status \notin TerminalStatuses }

\* BEFORE INSERT trigger: the values NEW.pickup_code can have after it
set_pickup_code(ords, uid, new_pickup_code) ==
  IF new_pickup_code = NULL \/ new_pickup_code = ""
    THEN generate_pickup_code(ords, uid)
    ELSE {new_pickup_code}

\* BEFORE UPDATE ON orders (set_updated_at_orders): the row NEW it returns
update_updated_at_column(new) == [new EXCEPT !.updated_at = NOW]

\* the trigger function without its INSERT INTO order_status_history
log_order_status_change_NoInsert(old, new) ==
  IF old.status # new.status
    THEN [history |-> << >>,
          row     |-> IF new.status = "completed"
                        THEN [new EXCEPT !.completed_at = NOW] ELSE new]
    ELSE [history |-> << >>, row |-> new]

\* the trigger function without its test OLD.status IS DISTINCT FROM NEW.status
log_order_status_change_EveryUpdate(old, new) ==
  [history |-> << [order_id        |-> new.id,
                   previous_status |-> old.status,
                   new_status      |-> new.status,
                   changed_by      |-> new.user_id] >>,
   row     |-> IF new.status = "completed"
                 THEN [new EXCEPT !.completed_at = NOW] ELSE new]

\* BEFORE UPDATE ON orders: the history rows it inserts and the row NEW it returns
log_order_status_change(old, new) ==
  IF old.status # new.status
    THEN [history |-> << [order_id        |-> new.id,
                          previous_status |-> old.status,
                          new_status      |-> new.status,
                          changed_by      |-> new.user_id] >>,
          row     |-> IF new.status = "completed"
                        THEN [new EXCEPT !.completed_at = NOW] ELSE new]
    ELSE [history |-> << >>, row |-> new]

\* the trigger function without its test NEW.status = 'ready'
notify_order_ready_AnyChange(old, new) ==
  IF old.status # new.status
    THEN << [user_id     |-> new.user_id,
             order_id    |-> new.id,
             type        |-> "order_ready",
             pickup_code |-> new.pickup_code,
             read_at     |-> NULL] >>
    ELSE << >>

\* AFTER UPDATE ON orders: the notifications rows it inserts
notify_order_ready(old, new) ==
  IF old.status # new.status /\ new.status = "ready"
    THEN << [user_id     |-> new.user_id,
             order_id    |-> new.id,
             type        |-> "order_ready",
             pickup_code |-> new.pickup_code,
             read_at     |-> NULL] >>
    ELSE << >>

\* the trigger function inserting its notification twice
notify_order_placed_Twice(new) ==
  LET n == [user_id     |-> new.user_id,
            order_id    |-> new.id,
            type        |-> "order_placed",
            pickup_code |-> NULL,
            read_at     |-> NULL]
  IN  << n, n >>

\* AFTER INSERT ON orders: the notifications rows it inserts
notify_order_placed(new) ==
  << [user_id     |-> new.user_id,
      order_id    |-> new.id,
      type        |-> "order_placed",
      pickup_code |-> NULL,
      read_at     |-> NULL] >>

\* BEFORE INSERT ON order_items, run for uid: TRUE when it raises (new is the
\* row NEW).  SELECT available INTO item_available reads menu_items with the
\* rights of uid and leaves item_available NULL when the policies show uid
\* no row; IF NOT item_available raises only when item_available is FALSE.
validate_menu_item_availability(uid, new) ==
  /\ new.menu_item_id \in DOMAIN menu_items
  /\ LET item  == menu_items[new.menu_item_id]
         found == MenuItemsSelectUsing(uid, item)
     IN  found /\ ~ item.available

\* TRUE when it raises.  No trigger calls it: CREATE TRIGGER
\* validate_order_total_on_update is commented out in the source.
validate_order_total(items, new) ==
  LET calculated_total == calculate_order_total(items, new.id)
      diff == new.total_amount - calculated_total
  IN  (IF diff < 0 THEN -diff ELSE diff) > 5

----------------------------------------------------------------------------
(* Statements.  Each operator maps the tables db a statement finds to its   *)
(* outcome: the error it raises ("none" when it commits), the rows it       *)
(* affects and the tables it leaves (db itself when it raises).             *)

Raises(db, err) == [error |-> err, rows |-> 0, db |-> db]

\* INSERT INTO orders on a pickup_code column that is NOT NULL but not UNIQUE
OrdersInsertError_NotUnique(db, uid, new) ==
  IF ~ UsersCanCreateOwnOrders(uid, new) THEN "row_level_security"
  ELSE IF new.status \notin Statuses \/ new.total_amount < 0 THEN "check_violation"
  ELSE IF new.pickup_code = NULL THEN "not_null_violation"
  ELSE IF Len(new.pickup_code) > 4 THEN "value_too_long"
  ELSE "none"

\* INSERT INTO orders: the error the row raises, after its BEFORE trigger has run
OrdersInsertError(db, uid, new) ==
  IF ~ UsersCanCreateOwnOrders(uid, new) THEN "row_level_security"
  ELSE IF new.status \notin Statuses \/ new.total_amount < 0 THEN "check_violation"
  ELSE IF new.pickup_code = NULL THEN "not_null_violation"
  ELSE IF Len(new.pickup_code) > 4 THEN "value_too_long"
  ELSE IF \E i \in 1..Len(db.orders) : db.orders[i].pickup_code = new.pickup_code
         THEN "unique_violation"
  ELSE "none"

\* INSERT INTO order_items: the error one row raises; ords is the orders table it sees
OrderItemsInsertError(uid, new, ords) ==
  IF validate_menu_item_availability(uid, new) THEN "raise_exception"
  ELSE IF new.menu_item_id \notin DOMAIN menu_items THEN "foreign_key_violation"
  ELSE IF ~ UsersCanAddItemsToOwnOrders(uid, new, ords) THEN "row_level_security"
  ELSE IF new.quantity < 1 \/ new.unit_price < 0 THEN "check_violation"
  ELSE "none"

\* the rows of a VALUES list of order_items for order p_order_id
ItemRows(items, p_order_id) ==
  [k \in 1..Len(items) |->
     [order_id     |-> p_order_id,
      menu_item_id |-> items[k].menu_item_id,
      quantity     |-> items[k].quantity,
      unit_price   |-> items[k].unit_price]]

\* BEGIN; INSERT INTO orders; INSERT INTO order_items; INSERT INTO payments; COMMIT
\* with NEW.pickup_code = code after the BEFORE INSERT trigger.  The payment
\* carries the client's amount.
PlaceOrderTxn(db, uid, user_id, status, total_amount, code, items) ==
  LET new == [id           |-> Len(db.orders) + 1,
              user_id      |-> user_id,
              status       |-> status,
              total_amount |-> total_amount,
              pickup_code  |-> code,
              updated_at   |-> AT_INSERT,
              completed_at |-> NULL]
      ords == Append(db.orders, new)
      rows == ItemRows(items, new.id)
      pay  == [order_id |-> new.id, amount |-> total_amount, status |-> "pending"]
      e1   == OrdersInsertError(db, uid, new)
      bad  == { k \in 1..Len(rows) : OrderItemsInsertError(uid, rows[k], ords) # "none" }
  IN  IF e1 # "none" THEN Raises(db, e1)
      ELSE IF bad # {}
        THEN Raises(db, OrderItemsInsertError(
                          uid, rows[CHOOSE k \in bad : \A j \in bad : k <= j], ords))
      ELSE IF ~ UsersCanCreatePaymentsForOwnOrders(uid, pay, ords)
        THEN Raises(db, "row_level_security")
      ELSE [error |-> "none", rows |-> 1,
            db |-> [orders |-> ords,
                    order_items |-> db.order_items \o rows,
                    order_status_history |-> db.order_status_history,
                    payments |-> Append(db.payments, pay),
                    notifications |-> db.notifications \o notify_order_placed(new)]]

\* INSERT INTO orders alone: the first statement of the transaction, without
\* items and payment
InsertOrderStmt(db, uid, user_id, status, total_amount, code) ==
  LET new == [id           |-> Len(db.orders) + 1,
              user_id      |-> user_id,
              status       |-> status,
              total_amount |-> total_amount,
              pickup_code  |-> code,
              updated_at   |-> AT_INSERT,
              completed_at |-> NULL]
      e1  == OrdersInsertError(db, uid, new)
  IN  IF e1 # "none" THEN Raises(db, e1)
      ELSE [error |-> "none", rows |-> 1,
            db |-> [db EXCEPT !.orders = Append(db.orders, new),
                              !.notifications = @ \o notify_order_placed(new)]]

\* INSERT INTO order_items (one row) into an existing order
InsertOrderItemStmt(db, uid, new) ==
  LET e == OrderItemsInsertError(uid, new, db.orders)
  IN  IF e # "none" THEN Raises(db, e)
      ELSE [error |-> "none", rows |-> 1,
            db |-> [db EXCEPT !.order_items = Append(db.order_items, new)]]

\* UPDATE orders SET status = target WHERE id = p_id, without the condition
\* on the status the client read
UpdateOrderStatusStmt_Unconditional(db, uid, p_id, expected, target) ==
  LET hit == /\ p_id \in 1..Len(db.orders)
             /\ OrdersUpdateUsing(uid, db.orders[p_id])
  IN  IF ~ hit THEN [error |-> "none", rows |-> 0, db |-> db]
      ELSE LET old == db.orders[p_id]
               t   == log_order_status_change(
                        old, update_updated_at_column([old EXCEPT !.status = target]))
               new == t.row
           IN  IF new.status \notin Statuses THEN Raises(db, "check_violation")
               ELSE IF ~ OrdersUpdateWithCheck(uid, new)
                 THEN Raises(db, "row_level_security")
               ELSE [error |-> "none", rows |-> 1,
                     db |-> [db EXCEPT
                               !.orders[p_id] = new,
                               !.order_status_history = @ \o t.history,
                               !.notifications = @ \o notify_order_ready(old, new)]]

\* UPDATE orders SET status = target WHERE id = p_id AND status = expected
UpdateOrderStatusStmt(db, uid, p_id, expected, target) ==
  LET hit == /\ p_id \in 1..Len(db.orders)
             /\ db.orders[p_id].status = expected
             /\ OrdersUpdateUsing(uid, db.orders[p_id])
  IN  IF ~ hit THEN [error |-> "none", rows |-> 0, db |-> db]
      ELSE LET old == db.orders[p_id]
               t   == log_order_status_change(
                        old, update_updated_at_column([old EXCEPT !.status = target]))
               new == t.row
           IN  IF new.status \notin Statuses THEN Raises(db, "check_violation")
               ELSE IF ~ OrdersUpdateWithCheck(uid, new)
                 THEN Raises(db, "row_level_security")
               ELSE [error |-> "none", rows |-> 1,
                     db |-> [db EXCEPT
                               !.orders[p_id] = new,
                               !.order_status_history = @ \o t.history,
                               !.notifications = @ \o notify_order_ready(old, new)]]

\* UPDATE orders SET pickup_code = .. WHERE id = p_id, run by uid
UpdateOrderPickupCodeStmt(db, uid, p_id, pickup_code) ==
  LET hit == /\ p_id \in 1..Len(db.orders)
             /\ OrdersUpdateUsing(uid, db.orders[p_id])
  IN  IF ~ hit THEN [error |-> "none", rows |-> 0, db |-> db]
      ELSE LET old == db.orders[p_id]
               t   == log_order_status_change(
                        old, update_updated_at_column([old EXCEPT !.pickup_code = pickup_code]))
               new == t.row
           IN  IF new.pickup_code = NULL THEN Raises(db, "not_null_violation")
               ELSE IF Len(new.pickup_code) > 4 THEN Raises(db, "value_too_long")
               ELSE IF \E i \in 1..Len(db.orders) :
                         i # p_id /\ db.orders[i].pickup_code = new.pickup_code
                 THEN Raises(db, "unique_violation")
               ELSE IF ~ OrdersUpdateWithCheck(uid, new)
                 THEN Raises(db, "row_level_security")
               ELSE [error |-> "none", rows |-> 1,
                     db |-> [db EXCEPT
                               !.orders[p_id] = new,
                               !.order_status_history = @ \o t.history,
                               !.notifications = @ \o notify_order_ready(old, new)]]

\* a condition that lets orders in preparation through
CancellableStatuses_WithPreparing == {"placed", "confirmed", "preparing"}

\* AND status IN ('placed', 'confirmed')
CancellableStatuses == {"placed", "confirmed"}

\* UPDATE orders SET status = 'cancelled'
\* WHERE id = ANY(ids) AND status IN ('placed', 'confirmed'), run by uid: the
\* rows are updated one after the other, each with its row triggers, and an
\* error in one of them undoes the statement
RECURSIVE CancelOrdersStmt(_, _, _)
CancelOrdersStmt(db, uid, ids) ==
  IF ids = {} THEN [error |-> "none", rows |-> 0, db |-> db]
  ELSE LET p_id == CHOOSE i \in ids : TRUE
           rest == CancelOrdersStmt(db, uid, ids \ {p_id})
       IN  IF rest.error # "none" THEN Raises(db, rest.error)
           ELSE IF \/ p_id \notin 1..Len(db.orders)
                   \/ db.orders[p_id].status \notin CancellableStatuses
             THEN rest
           ELSE LET r == UpdateOrderStatusStmt(rest.db, uid, p_id,
                                               db.orders[p_id].status, "cancelled")
                IN  IF r.error # "none" THEN Raises(db, r.error)
                    ELSE [error |-> "none", rows |-> rest.rows + r.rows, db |-> r.db]

\* WHERE pickup_code = .. AND status = 'ready'
CompleteOrderQual(row, p_pickup_code) ==
  row.pickup_code = p_pickup_code /\ row.status = "ready"

\* a second test that lets every locked row through
CompleteOrderRecheck_Skipped(row, p_pickup_code) == TRUE

\* the WHERE clause tested again on the latest version of a locked row
CompleteOrderRecheck(row, p_pickup_code) == CompleteOrderQual(row, p_pickup_code)

\* the rows the scan of UPDATE orders ... WHERE pickup_code = .. AND
\* status = 'ready' run by uid finds in the snapshot it reads
CompleteOrderScan(db, uid, p_pickup_code) ==
  { i \in 1..Len(db.orders) :
      /\ OrdersUpdateUsing(uid, db.orders[i])
      /\ CompleteOrderQual(db.orders[i], p_pickup_code) }

\* the rest of that UPDATE: each row the scan found is locked, its latest
\* version is tested against the WHERE clause again, and the row that still
\* qualifies is set to completed, with the row triggers; rows counts the rows
\* of RETURNING id, user_id
RECURSIVE CompleteOrderUpdate(_, _, _, _)
CompleteOrderUpdate(db, uid, p_pickup_code, found) ==
  IF found = {} THEN [error |-> "none", rows |-> 0, db |-> db]
  ELSE LET i    == CHOOSE k \in found : TRUE
           rest == CompleteOrderUpdate(db, uid, p_pickup_code, found \ {i})
       IN  IF rest.error # "none" THEN Raises(db, rest.error)
           ELSE IF ~ CompleteOrderRecheck(db.orders[i], p_pickup_code) THEN rest
           ELSE LET r == UpdateOrderStatusStmt(rest.db, uid, i,
                                               db.orders[i].status, "completed")
                IN  IF r.error # "none" THEN Raises(db, r.error)
                    ELSE [error |-> "none", rows |-> rest.rows + r.rows, db |-> r.db]

\* the UPDATE run without another statement in between
CompleteOrderStmt(db, uid, p_pickup_code) ==
  CompleteOrderUpdate(db, uid, p_pickup_code, CompleteOrderScan(db, uid, p_pickup_code))

\* Statements on the catalogue tables.  A table is a function from its key
\* to its row; the outcome has the table the statement leaves as tbl.

Refuses(tbl, err) == [error |-> err, rows |-> 0, tbl |-> tbl]

NoRow(tbl) == [error |-> "none", rows |-> 0, tbl |-> tbl]

\* the table without the row of key
Without(tbl, key) == [k \in DOMAIN tbl \ {key} |-> tbl[k]]

\* INSERT INTO menu_categories (name, active)
InsertMenuCategoryStmt(cats, uid, name, row) ==
  IF ~ AdminsCanInsertMenuCategories(uid, row) THEN Refuses(cats, "row_level_security")
  ELSE IF name \in DOMAIN cats THEN Refuses(cats, "unique_violation")
  ELSE [error |-> "none", rows |-> 1, tbl |-> cats @@ (name :> row)]

\* UPDATE menu_categories SET active = .. WHERE name = ..
UpdateMenuCategoryStmt(cats, uid, name, active) ==
  LET hit == /\ name \in DOMAIN cats
             /\ MenuCategoriesSelectUsing(uid, cats[name])
             /\ AdminsCanUpdateMenuCategories(uid, cats[name])
  IN  IF ~ hit THEN NoRow(cats)
      ELSE LET new == [cats[name] EXCEPT !.active = active]
           IN  IF ~ AdminsCanUpdateMenuCategories(uid, new)
                 THEN Refuses(cats, "row_level_security")
                 ELSE [error |-> "none", rows |-> 1, tbl |-> [cats EXCEPT ![name] = new]]

\* the DELETE without the foreign key of menu_items
DeleteMenuCategoryStmt_NoRestrict(cats, items, uid, name) ==
  LET hit == /\ name \in DOMAIN cats
             /\ MenuCategoriesSelectUsing(uid, cats[name])
             /\ AdminsCanDeleteMenuCategories(uid, cats[name])
  IN  IF ~ hit THEN NoRow(cats)
      ELSE [error |-> "none", rows |-> 1, tbl |-> Without(cats, name)]

\* DELETE FROM menu_categories WHERE name = ..; menu_items.category_id is
\* ON DELETE RESTRICT
DeleteMenuCategoryStmt(cats, items, uid, name) ==
  LET hit == /\ name \in DOMAIN cats
             /\ MenuCategoriesSelectUsing(uid, cats[name])
             /\ AdminsCanDeleteMenuCategories(uid, cats[name])
  IN  IF ~ hit THEN NoRow(cats)
      ELSE IF \E m \in DOMAIN items : items[m].category = name
        THEN Refuses(cats, "foreign_key_violation")
      ELSE [error |-> "none", rows |-> 1, tbl |-> Without(cats, name)]

\* INSERT INTO menu_items (id, category_id, price, available), id a new uuid
InsertMenuItemStmt(items, cats, uid, id, row) ==
  IF ~ AdminsCanInsertMenuItems(uid, row) THEN Refuses(items, "row_level_security")
  ELSE IF row.price < 0 THEN Refuses(items, "check_violation")
  ELSE IF row.category \notin DOMAIN cats THEN Refuses(items, "foreign_key_violation")
  ELSE [error |-> "none", rows |-> 1, tbl |-> items @@ (id :> row)]

\* UPDATE menu_items SET price = .. WHERE id = ..
UpdateMenuItemPriceStmt(items, uid, id, price) ==
  LET hit == /\ id \in DOMAIN items
             /\ MenuItemsSelectUsing(uid, items[id])
             /\ AdminsCanUpdateMenuItems(uid, items[id])
  IN  IF ~ hit THEN NoRow(items)
      ELSE LET new == [items[id] EXCEPT !.price = price]
           IN  IF new.price < 0 THEN Refuses(items, "check_violation")
               ELSE IF ~ AdminsCanUpdateMenuItems(uid, new)
                 THEN Refuses(items, "row_level_security")
               ELSE [error |-> "none", rows |-> 1, tbl |-> [items EXCEPT ![id] = new]]

\* DELETE FROM menu_items WHERE id = ..; order_items.menu_item_id is
\* ON DELETE RESTRICT
DeleteMenuItemStmt(items, oitems, uid, id) ==
  LET hit == /\ id \in DOMAIN items
             /\ MenuItemsSelectUsing(uid, items[id])
             /\ AdminsCanDeleteMenuItems(uid, items[id])
  IN  IF ~ hit THEN NoRow(items)
      ELSE IF \E k \in 1..Len(oitems) : oitems[k].menu_item_id = id
        THEN Refuses(items, "foreign_key_violation")
      ELSE [error |-> "none", rows |-> 1, tbl |-> Without(items, id)]

\* INSERT INTO cafeteria_settings (key, value)
InsertCafeteriaSettingStmt(settings, uid, key, row) ==
  IF ~ AdminsCanInsertCafeteriaSettings(uid, row) THEN Refuses(settings, "row_level_security")
  ELSE IF key \in DOMAIN settings THEN Refuses(settings, "unique_violation")
  ELSE [error |-> "none", rows |-> 1, tbl |-> settings @@ (key :> row)]

\* UPDATE cafeteria_settings SET value = .. WHERE key = ..
UpdateCafeteriaSettingStmt(settings, uid, key, value) ==
  LET hit == /\ key \in DOMAIN settings
             /\ AnyoneCanViewCafeteriaSettings(uid, settings[key])
             /\ AdminsCanUpdateCafeteriaSettings(uid, settings[key])
  IN  IF ~ hit THEN NoRow(settings)
      ELSE LET new == [settings[key] EXCEPT !.value = value]
           IN  IF ~ AdminsCanUpdateCafeteriaSettings(uid, new)
                 THEN Refuses(settings, "row_level_security")
                 ELSE [error |-> "none", rows |-> 1, tbl |-> [settings EXCEPT ![key] = new]]

\* DELETE FROM cafeteria_settings WHERE key = ..
DeleteCafeteriaSettingStmt(settings, uid, key) ==
  LET hit == /\ key \in DOMAIN settings
             /\ AnyoneCanViewCafeteriaSettings(uid, settings[key])
             /\ AdminsCanDeleteCafeteriaSettings(uid, settings[key])
  IN  IF ~ hit THEN NoRow(settings)
      ELSE [error |-> "none", rows |-> 1, tbl |-> Without(settings, key)]

\* AFTER INSERT ON auth.users (SECURITY DEFINER): the profiles table after
\* INSERT INTO profiles .. VALUES (NEW.id, full_name, 'student')
\* ON CONFLICT (user_id) DO NOTHING
create_profile_for_new_user(profs, new_id, full_name) ==
  IF new_id \in DOMAIN profs
    THEN profs
    ELSE profs @@ (new_id :> [role |-> "student", full_name |-> full_name])

\* INSERT INTO profiles (user_id, full_name, role) issued by uid.  auth.users
\* holds the identities that have a profile (the sign-up trigger), so a
\* user_id without a profile violates the foreign key.
InsertProfileStmt(profs, uid, user_id, row) ==
  IF ~ UsersCanCreateOwnProfile(uid, user_id, row) THEN Refuses(profs, "row_level_security")
  ELSE IF row.role \notin Roles THEN Refuses(profs, "check_violation")
  ELSE IF user_id \in DOMAIN profs THEN Refuses(profs, "unique_violation")
  ELSE Refuses(profs, "foreign_key_violation")

\* UPDATE profiles SET role = .., full_name = .. WHERE user_id = .. issued by uid
UpdateProfileStmt(profs, uid, user_id, role, full_name) ==
  LET hit == /\ user_id \in DOMAIN profs
             /\ ProfilesSelectUsing(uid, user_id, profs[user_id])
             /\ \/ UsersCanUpdateOwnProfileUsing(uid, user_id, profs[user_id])
                \/ AdminsCanUpdateProfiles(uid, user_id, profs[user_id])
  IN  IF ~ hit THEN NoRow(profs)
      ELSE LET new == [role |-> role, full_name |-> full_name]
           IN  IF new.role \notin Roles THEN Refuses(profs, "check_violation")
               ELSE IF ~ ( \/ UsersCanUpdateOwnProfileWithCheck(uid, user_id, new, profs)
                           \/ AdminsCanUpdateProfiles(uid, user_id, new) )
                 THEN Refuses(profs, "row_level_security")
               ELSE [error |-> "none", rows |-> 1, tbl |-> [profs EXCEPT ![user_id] = new]]

\* INSERT INTO order_status_history issued by a client (the policy admits
\* every row)
InsertOrderHistoryStmt(db, uid, new) ==
  IF ~ SystemCanInsertOrderHistory(uid, new) THEN Raises(db, "row_level_security")
  ELSE IF new.order_id \notin 1..Len(db.orders) THEN Raises(db, "foreign_key_violation")
  ELSE [error |-> "none", rows |-> 1,
        db |-> [db EXCEPT !.order_status_history = Append(@, new)]]

\* UPDATE order_status_history SET new_status = .. WHERE id = k
UpdateOrderHistoryStmt(db, uid, k, new_status) ==
  LET hit == /\ k \in 1..Len(db.order_status_history)
             /\ OrderHistorySelectUsing(uid, db.order_status_history[k], db.orders)
             /\ OrderHistoryUpdateUsing(uid, db.order_status_history[k])
  IN  IF ~ hit THEN [error |-> "none", rows |-> 0, db |-> db]
      ELSE [error |-> "none", rows |-> 1,
            db |-> [db EXCEPT !.order_status_history[k].new_status = new_status]]

\* DELETE FROM order_status_history WHERE id = k
DeleteOrderHistoryStmt(db, uid, k) ==
  LET h   == db.order_status_history
      hit == /\ k \in 1..Len(h)
             /\ OrderHistorySelectUsing(uid, h[k], db.orders)
             /\ OrderHistoryDeleteUsing(uid, h[k])
  IN  IF ~ hit THEN [error |-> "none", rows |-> 0, db |-> db]
      ELSE [error |-> "none", rows |-> 1,
            db |-> [db EXCEPT !.order_status_history =
                                SubSeq(h, 1, k - 1) \o SubSeq(h, k + 1, Len(h))]]

\* UPDATE order_items SET unit_price = .. WHERE id = k
UpdateOrderItemStmt(db, uid, k, unit_price) ==
  LET hit == /\ k \in 1..Len(db.order_items)
             /\ OrderItemsSelectUsing(uid, db.order_items[k], db.orders)
             /\ OrderItemsUpdateUsing(uid, db.order_items[k], db.orders)
  IN  IF ~ hit THEN [error |-> "none", rows |-> 0, db |-> db]
      ELSE IF unit_price < 0 THEN Raises(db, "check_violation")
      ELSE [error |-> "none", rows |-> 1,
            db |-> [db EXCEPT !.order_items[k].unit_price = unit_price]]

\* orders.created_at DEFAULT NOW(): the clock advances from one INSERT to the
\* next, so the creation times of the rows order as their positions do
created_at(row) == row.id

\* WHERE o.status IN ('placed', 'confirmed', 'preparing', 'ready')
QueueStatuses == {"placed", "confirmed", "preparing", "ready"}

\* CASE o.status WHEN 'placed' THEN 1 ... WHEN 'ready' THEN 4 END
StatusPriority(status) ==
  CASE status = "placed" -> 1 [] status = "confirmed" -> 2
    [] status = "preparing" -> 3 [] status = "ready" -> 4

\* an ORDER BY on o.created_at alone
StaffQueueOrderBy_CreatedAtOnly(a, b) == created_at(a) <= created_at(b)

\* ORDER BY CASE o.status ... END, o.created_at ASC: row a sorts no later than b
StaffQueueOrderBy(a, b) ==
  \/ StatusPriority(a.status) < StatusPriority(b.status)
  \/ /\ StatusPriority(a.status) = StatusPriority(b.status)
     /\ created_at(a) <= created_at(b)

\* the rows of S in the order of ORDER BY
RECURSIVE StaffQueueSorted(_)
StaffQueueSorted(S) ==
  IF S = {} THEN << >>
  ELSE LET first == CHOOSE a \in S : \A b \in S : StaffQueueOrderBy(a, b)
       IN  << first >> \o StaffQueueSorted(S \ {first})

\* the staff dashboard's queue as uid reads it: orders joined with the
\* owner's profile, grouped by order with the count of its items
StaffQueueStmt(db, uid) ==
  LET joined == { i \in 1..Len(db.orders) :
                    /\ OrdersSelectUsing(uid, db.orders[i])
                    /\ db.orders[i].user_id \in DOMAIN profiles
                    /\ ProfilesSelectUsing(uid, db.orders[i].user_id,
                                           profiles[db.orders[i].user_id])
                    /\ db.orders[i].status \in QueueStatuses }
      item_count(i) ==
        Len(SelectSeq(db.order_items,
                      LAMBDA oi : /\ oi.order_id = db.orders[i].id
                                  /\ OrderItemsSelectUsing(uid, oi, db.orders)))
  IN  StaffQueueSorted(
        { [id            |-> db.orders[i].id,
           status        |-> db.orders[i].status,
           pickup_code   |-> db.orders[i].pickup_code,
           customer_name |-> profiles[db.orders[i].user_id].full_name,
           item_count    |-> item_count(i),
           total_amount  |-> db.orders[i].total_amount] : i \in joined })

\* SELECT ... FROM orders / order_items / order_status_history / payments
\* issued by uid: the rows the SELECT policies return
SelectOrders(db, uid) ==
  SelectSeq(db.orders, LAMBDA r : OrdersSelectUsing(uid, r))

SelectOrderItems(db, uid) ==
  SelectSeq(db.order_items, LAMBDA r : OrderItemsSelectUsing(uid, r, db.orders))

SelectOrderStatusHistory(db, uid) ==
  SelectSeq(db.order_status_history, LAMBDA r : OrderHistorySelectUsing(uid, r, db.orders))

SelectPayments(db, uid) ==
  SelectSeq(db.payments, LAMBDA r : PaymentsSelectUsing(uid, r, db.orders))

\* notifications FOR SELECT and FOR UPDATE
UsersCanViewOwnNotifications(uid, row) == uid = row.user_id

StaffCanViewAllNotifications(uid, row) == is_staff(uid)

NotificationsSelectUsing(uid, row) ==
  UsersCanViewOwnNotifications(uid, row) \/ StaffCanViewAllNotifications(uid, row)

UsersCanUpdateOwnNotifications(uid, row) == uid = row.user_id

\* notifications FOR INSERT
SystemCanCreateNotifications(uid, row) == TRUE

\* CHECK (type IN (...)) of table notifications
NotificationTypes ==
  {"order_placed", "order_confirmed", "order_ready", "order_completed",
   "order_cancelled", "system_message"}

\* INSERT INTO notifications (user_id, order_id, type, ..) issued by a client
InsertNotificationStmt(db, uid, new) ==
  IF ~ SystemCanCreateNotifications(uid, new) THEN Raises(db, "row_level_security")
  ELSE IF new.type \notin NotificationTypes THEN Raises(db, "check_violation")
  ELSE IF new.order_id \notin 1..Len(db.orders) THEN Raises(db, "foreign_key_violation")
  ELSE [error |-> "none", rows |-> 1,
        db |-> [db EXCEPT !.notifications = Append(@, new)]]

\* the k-th reading of the clock, as a TIMESTAMPTZ value
Stamp(k) == "t" \o ToText(k)

\* the number of the latest reading of the clock stored in read_at (0: none)
LastRead(notifs) ==
  CHOOSE k \in 0..(MaxReads + 2) :
    /\ k = 0 \/ \E i \in 1..Len(notifs) : notifs[i].read_at = Stamp(k)
    /\ \A j \in (k + 1)..(MaxReads + 2) :
         \A i \in 1..Len(notifs) : notifs[i].read_at # Stamp(j)

\* NOW() of a statement on notifs: later than every timestamp stored before
ReadClock(notifs) == Stamp(LastRead(notifs) + 1)

\* p_notification_ids: DEFAULT NULL, or an array of ids
NullIds == [is_null |-> TRUE, ids |-> {}]

ArrayOf(ids) == [is_null |-> FALSE, ids |-> ids]

\* the rows notifs has after SET read_at = NOW() on the rows at positions hit
SetReadAt(notifs, hit) ==
  [i \in 1..Len(notifs) |->
     IF i \in hit THEN [notifs[i] EXCEPT !.read_at = ReadClock(notifs)] ELSE notifs[i]]

\* SELECT mark_notifications_read(p_user_id, p_notification_ids): the count
\* it returns and the table it leaves. SECURITY DEFINER: it updates the rows
\* of p_user_id, whoever calls it. The id of a notification is its position.
mark_notifications_read(notifs, p_user_id, p_notification_ids) ==
  LET hit == { i \in 1..Len(notifs) :
                 /\ notifs[i].user_id = p_user_id
                 /\ p_notification_ids.is_null \/ i \in p_notification_ids.ids
                 /\ notifs[i].read_at = NULL }
  IN  [rows_updated |-> Cardinality(hit), notifications |-> SetReadAt(notifs, hit)]

\* UPDATE notifications SET read_at = NOW()
\* WHERE user_id = .. AND id = ANY(ARRAY[..]), run by uid
MarkNotificationsReadStmt(db, uid, user_id, ids) ==
  LET hit == { i \in 1..Len(db.notifications) :
                 /\ db.notifications[i].user_id = user_id
                 /\ i \in ids
                 /\ NotificationsSelectUsing(uid, db.notifications[i])
                 /\ UsersCanUpdateOwnNotifications(uid, db.notifications[i]) }
  IN  [error |-> "none", rows |-> Cardinality(hit),
       db |-> [db EXCEPT !.notifications = SetReadAt(db.notifications, hit)]]

\* the function without AND o.status = 'ready'
verify_pickup_code_AnyStatus(ords, p_pickup_code) ==
  LET o == SelectSeq(ords, LAMBDA r : r.pickup_code = p_pickup_code)
  IN  [k \in 1..Len(o) |->
         [order_id |-> o[k].id, user_id |-> o[k].user_id, status |-> o[k].status,
          total_amount |-> o[k].total_amount]]

\* SELECT ... FROM verify_pickup_code(p_pickup_code): the rows it returns.
\* SECURITY DEFINER: it reads every row of orders, whoever calls it.
verify_pickup_code(ords, p_pickup_code) ==
  LET o == SelectSeq(ords, LAMBDA r : r.pickup_code = p_pickup_code /\ r.status = "ready")
  IN  [k \in 1..Len(o) |->
         [order_id |-> o[k].id, user_id |-> o[k].user_id, status |-> o[k].status,
          total_amount |-> o[k].total_amount]]

----------------------------------------------------------------------------
(* Actions *)

\* a session that is not inside an INSERT INTO orders
Idle == [code |-> NULL, generated |-> FALSE, uid |-> NULL]

\* supabase.auth.getSession() with nobody signed in: it resolves to
\* { data: { session: null }, error: null }
NoSession == [rejects |-> FALSE, session |-> NULL, error |-> NULL]

\* a session that is not inside an UPDATE of orders by pickup code
NoScan == [uid |-> NULL, code |-> NULL, rows |-> {}]

Init ==
  /\ orders = << >>
  /\ order_items = << >>
  /\ order_status_history = << >>
  /\ payments = << >>
  /\ notifications = << >>
  /\ menu_items = seed_menu_items
  /\ profiles = seed_profiles
  /\ menu_categories = seed_menu_categories
  /\ cafeteria_settings = seed_cafeteria_settings
  /\ drawn = [s \in Sessions |-> Idle]
  /\ scanned = [s \in Sessions |-> NoScan]
  /\ auth = NoSession
  /\ console = << >>
  /\ test_results = << >>

\* the tables after a statement with outcome r
Commit(r) ==
  /\ orders' = r.db.orders
  /\ order_items' = r.db.order_items
  /\ order_status_history' = r.db.order_status_history
  /\ payments' = r.db.payments
  /\ notifications' = r.db.notifications
  /\ UNCHANGED <<menu_items, admin_tables>>

\* the order-placement transaction, run without interleaving
PlaceOrder(uid, user_id, status, total_amount, given_code, items) ==
  /\ Len(orders) < MaxOrders
  /\ Len(order_items) + Len(items) <= MaxItems
  /\ \E code \in set_pickup_code(orders, uid, given_code) :
       Commit(PlaceOrderTxn(DB, uid, user_id, status, total_amount, code, items))
  /\ UNCHANGED <<in_flight, app>>

\* the same transaction of uid in session s, up to the end of its BEFORE INSERT
\* trigger
BeginPlaceOrder(s, uid, given_code) ==
  /\ drawn[s] = Idle
  /\ Len(orders) + Cardinality({s2 \in Sessions : drawn[s2] # Idle}) < MaxOrders
  /\ \E code \in set_pickup_code(orders, uid, given_code) :
       drawn' = [drawn EXCEPT ![s] = [code |-> code, generated |-> given_code = NULL,
                                      uid |-> uid]]
  /\ UNCHANGED <<tables, menu_items, admin_tables, scanned, app>>

\* ... and from there to its COMMIT or its error
FinishPlaceOrder(s, user_id, status, total_amount, items) ==
  /\ drawn[s] # Idle
  /\ Len(order_items) + Len(items) <= MaxItems
  /\ Commit(PlaceOrderTxn(DB, drawn[s].uid, user_id, status, total_amount,
                          drawn[s].code, items))
  /\ drawn' = [drawn EXCEPT ![s] = Idle]
  /\ UNCHANGED <<scanned, app>>

InsertOrderItem(uid, p_order_id, menu_item_id, quantity, unit_price) ==
  /\ Len(order_items) < MaxItems
  /\ Commit(InsertOrderItemStmt(DB, uid,
              [order_id |-> p_order_id, menu_item_id |-> menu_item_id,
               quantity |-> quantity, unit_price |-> unit_price]))
  /\ UNCHANGED <<in_flight, app>>

\* INSERT INTO orders by itself
InsertOrder(uid, user_id, status, total_amount, given_code) ==
  /\ Len(orders) < MaxOrders
  /\ \E code \in set_pickup_code(orders, uid, given_code) :
       Commit(InsertOrderStmt(DB, uid, user_id, status, total_amount, code))
  /\ UNCHANGED <<in_flight, app>>

\* UPDATE menu_items SET available = available WHERE id = ANY(ids), issued by
\* uid: it updates the rows the SELECT and UPDATE policies admit
SetMenuItemAvailability(uid, ids, available) ==
  /\ menu_items' =
       [m \in DOMAIN menu_items |->
          IF /\ m \in ids
             /\ MenuItemsSelectUsing(uid, menu_items[m])
             /\ AdminsCanUpdateMenuItems(uid, menu_items[m])
            THEN [menu_items[m] EXCEPT !.available = available]
            ELSE menu_items[m]]
  /\ UNCHANGED <<tables, in_flight, app, admin_tables>>

\* a statement on menu_items with outcome r
CommitMenuItems(r) ==
  /\ menu_items' = r.tbl
  /\ UNCHANGED <<tables, in_flight, app, admin_tables>>

InsertMenuItem(uid, id, category, price) ==
  /\ id \notin DOMAIN menu_items
  /\ CommitMenuItems(InsertMenuItemStmt(menu_items, menu_categories, uid, id,
       [category |-> category, price |-> price, available |-> TRUE]))

UpdateMenuItemPrice(uid, id, price) ==
  CommitMenuItems(UpdateMenuItemPriceStmt(menu_items, uid, id, price))

DeleteMenuItem(uid, id) ==
  CommitMenuItems(DeleteMenuItemStmt(menu_items, order_items, uid, id))

\* a statement on menu_categories with outcome r
CommitMenuCategories(r) ==
  /\ menu_categories' = r.tbl
  /\ UNCHANGED <<tables, in_flight, app, menu_items, profiles, cafeteria_settings>>

InsertMenuCategory(uid, name, active) ==
  CommitMenuCategories(InsertMenuCategoryStmt(menu_categories, uid, name, [active |-> active]))

UpdateMenuCategory(uid, name, active) ==
  CommitMenuCategories(UpdateMenuCategoryStmt(menu_categories, uid, name, active))

DeleteMenuCategory(uid, name) ==
  CommitMenuCategories(DeleteMenuCategoryStmt(menu_categories, menu_items, uid, name))

\* a statement on cafeteria_settings with outcome r
CommitCafeteriaSettings(r) ==
  /\ cafeteria_settings' = r.tbl
  /\ UNCHANGED <<tables, in_flight, app, menu_items, profiles, menu_categories>>

InsertCafeteriaSetting(uid, key, value) ==
  CommitCafeteriaSettings(
    InsertCafeteriaSettingStmt(cafeteria_settings, uid, key, [value |-> value]))

UpdateCafeteriaSetting(uid, key, value) ==
  CommitCafeteriaSettings(UpdateCafeteriaSettingStmt(cafeteria_settings, uid, key, value))

DeleteCafeteriaSetting(uid, key) ==
  CommitCafeteriaSettings(DeleteCafeteriaSettingStmt(cafeteria_settings, uid, key))

\* a statement on profiles with outcome r
CommitProfiles(r) ==
  /\ profiles' = r.tbl
  /\ UNCHANGED <<tables, in_flight, app, menu_items, menu_categories, cafeteria_settings>>

\* sign-up of identity new_id: INSERT INTO auth.users and its trigger
SignUp(new_id, full_name) ==
  /\ profiles' = create_profile_for_new_user(profiles, new_id, full_name)
  /\ UNCHANGED <<tables, in_flight, app, menu_items, menu_categories, cafeteria_settings>>

InsertProfile(uid, user_id, role, full_name) ==
  /\ uid \in DOMAIN profiles
  /\ CommitProfiles(InsertProfileStmt(profiles, uid, user_id,
                                      [role |-> role, full_name |-> full_name]))

UpdateProfile(uid, user_id, role, full_name) ==
  /\ uid \in DOMAIN profiles
  /\ CommitProfiles(UpdateProfileStmt(profiles, uid, user_id, role, full_name))

InsertOrderHistory(uid, p_order_id, previous_status, new_status) ==
  /\ Len(order_status_history) < MaxHistory
  /\ Commit(InsertOrderHistoryStmt(DB, uid,
              [order_id |-> p_order_id, previous_status |-> previous_status,
               new_status |-> new_status, changed_by |-> uid]))
  /\ UNCHANGED <<in_flight, app>>

UpdateOrderHistory(uid, k, new_status) ==
  /\ Commit(UpdateOrderHistoryStmt(DB, uid, k, new_status))
  /\ UNCHANGED <<in_flight, app>>

DeleteOrderHistory(uid, k) ==
  /\ Commit(DeleteOrderHistoryStmt(DB, uid, k))
  /\ UNCHANGED <<in_flight, app>>

UpdateOrderItem(uid, k, unit_price) ==
  /\ Commit(UpdateOrderItemStmt(DB, uid, k, unit_price))
  /\ UNCHANGED <<in_flight, app>>

\* a call of the function by uid
CallMarkNotificationsRead(uid, p_user_id, p_notification_ids) ==
  /\ LastRead(notifications) < MaxReads
  /\ notifications' =
       mark_notifications_read(notifications, p_user_id, p_notification_ids).notifications
  /\ UNCHANGED <<orders, order_items, order_status_history, payments,
                 menu_items, admin_tables, in_flight, app>>

\* the UPDATE statement run by uid
MarkNotificationsRead(uid, user_id, ids) ==
  /\ LastRead(notifications) < MaxReads
  /\ Commit(MarkNotificationsReadStmt(DB, uid, user_id, ids))
  /\ UNCHANGED <<in_flight, app>>

UpdateOrderStatus(uid, p_id, expected, target) ==
  LET r == UpdateOrderStatusStmt(DB, uid, p_id, expected, target)
  IN  /\ Len(r.db.order_status_history) <= MaxHistory
      /\ Commit(r)
      /\ UNCHANGED <<in_flight, app>>

InsertNotification(uid, user_id, order_id, type) ==
  /\ Len(notifications) < MaxNotifications
  /\ Commit(InsertNotificationStmt(
              DB, uid, [user_id |-> user_id, order_id |-> order_id, type |-> type,
                        pickup_code |-> NULL, read_at |-> NULL]))
  /\ UNCHANGED <<in_flight, app>>

UpdateOrderPickupCode(uid, p_id, pickup_code) ==
  /\ Commit(UpdateOrderPickupCodeStmt(DB, uid, p_id, pickup_code))
  /\ UNCHANGED <<in_flight, app>>

CancelOrders(uid, ids) ==
  LET r == CancelOrdersStmt(DB, uid, ids)
  IN  /\ Len(r.db.order_status_history) <= MaxHistory
      /\ Commit(r)
      /\ UNCHANGED <<in_flight, app>>

\* the UPDATE by pickup code of uid in session s, up to the end of its scan
BeginCompleteOrder(s, uid, p_pickup_code) ==
  /\ scanned[s] = NoScan
  /\ scanned' = [scanned EXCEPT ![s] =
                   [uid |-> uid, code |-> p_pickup_code,
                    rows |-> CompleteOrderScan(DB, uid, p_pickup_code)]]
  /\ UNCHANGED <<tables, menu_items, admin_tables, drawn, app>>

\* ... and from there to its end
FinishCompleteOrder(s) ==
  LET r == CompleteOrderUpdate(DB, scanned[s].uid, scanned[s].code, scanned[s].rows)
  IN  /\ scanned[s] # NoScan
      /\ Len(r.db.order_status_history) <= MaxHistory
      /\ Commit(r)
      /\ scanned' = [scanned EXCEPT ![s] = NoScan]
      /\ UNCHANGED <<drawn, app>>

\* The mobile app's session helper and its configuration check.

\* the answers of supabase.auth.getSession(): the promise rejects, or it
\* resolves to { data: { session }, error }
AuthAnswers ==
  { [rejects |-> TRUE, session |-> NULL, error |-> NULL] } \cup
  { [rejects |-> FALSE, session |-> session, error |-> error] :
      session \in {NULL, "session of ana"}, error \in {NULL, "AuthError"} }

\* the helper with a throw in place of its return null
getCurrentSession_Rethrows(answer, log) ==
  IF answer.rejects \/ answer.error # NULL
    THEN [threw |-> TRUE, value |-> NULL, console |-> log]
  ELSE [threw |-> FALSE, value |-> answer.session, console |-> log]

\* getCurrentSession(): whether the await threw, the value the promise
\* resolves to, and the console after it
getCurrentSession(answer, log) ==
  IF answer.rejects THEN [threw |-> TRUE, value |-> NULL, console |-> log]
  ELSE IF answer.error # NULL
    THEN [threw |-> FALSE, value |-> NULL,
          console |-> Append(log, "Error getting session:")]
  ELSE [threw |-> FALSE, value |-> answer.session, console |-> log]

\* testAuthConfiguration(): the TestResult it returns and the console after it
testAuthConfiguration(answer, log) ==
  LET r == getCurrentSession(answer, log)
  IN  IF r.threw
        THEN [result  |-> [name |-> "Authentication Configuration", passed |-> FALSE,
                           message |-> "Authentication error:"],
              console |-> r.console]
      ELSE [result  |-> [name |-> "Authentication Configuration", passed |-> TRUE,
                         message |-> IF r.value # NULL
                                       THEN "Authentication configured (user logged in)"
                                       ELSE "Authentication configured (no active session)"],
            console |-> r.console]

\* the auth client comes to answer differently: a sign-in, a sign-out, a failure
ChangeAuth(answer) ==
  /\ auth' = answer
  /\ UNCHANGED <<tables, menu_items, admin_tables, in_flight, console, test_results>>

\* the app asks for the session
CallGetCurrentSession ==
  /\ Len(console) < MaxLog
  /\ console' = getCurrentSession(auth, console).console
  /\ UNCHANGED <<tables, menu_items, admin_tables, in_flight, auth, test_results>>

\* the connection test suite runs its authentication test
RunTestAuthConfiguration ==
  LET t == testAuthConfiguration(auth, console)
  IN  /\ Len(console) < MaxLog
      /\ Len(test_results) < MaxLog
      /\ test_results' = Append(test_results, t.result)
      /\ console' = t.console
      /\ UNCHANGED <<tables, menu_items, admin_tables, in_flight, auth>>

\* the status a client conditions its update of order p_id on: the one the
\* order has now (a fresh read), or one it had read earlier
ReadStatuses(p_id) == {orders[p_id].status, "placed"}

Next ==
  \/ \E uid \in Users, user_id \in OrderOwners, status \in InsertStatuses,
        total_amount \in Totals, given_code \in GivenCodes, items \in ItemLists :
       PlaceOrder(uid, user_id, status, total_amount, given_code, items)
  \/ \E uid \in Users, p_order_id \in 1..Len(orders) :
       InsertOrderItem(uid, p_order_id, "French Fries", 1, 900)
  \/ \E uid \in Users, p_id \in 1..Len(orders), target \in Statuses :
       \E expected \in ReadStatuses(p_id) :
         UpdateOrderStatus(uid, p_id, expected, target)

Spec == Init /\ [][Next]_vars

\* Two sessions creating orders concurrently: each draws its pickup code
\* against the orders committed so far, and inserts its row in a later step.
NextConcurrent ==
  \/ \E s \in Sessions, uid \in OrderOwners, given_code \in GivenCodes :
       BeginPlaceOrder(s, uid, given_code)
  \/ \E s \in Sessions, user_id \in OrderOwners, status \in InsertStatuses,
        total_amount \in Totals, items \in ItemLists :
       FinishPlaceOrder(s, user_id, status, total_amount, items)
  \/ \E uid \in Users, p_id \in 1..Len(orders), target \in Statuses :
       \E expected \in ReadStatuses(p_id) :
         UpdateOrderStatus(uid, p_id, expected, target)

SpecConcurrent == Init /\ [][NextConcurrent]_vars

\* Orders placed by their owner as the checkout places them (status placed,
\* the total of the items, a generated code), and status updates by every user.
NextStatusUpdates ==
  \/ \E user_id \in OrderOwners, items \in ItemLists :
       PlaceOrder(user_id, user_id, "placed", 1600, NULL, items)
  \/ \E uid \in Users, p_id \in 1..Len(orders), target \in Statuses :
       \E expected \in ReadStatuses(p_id) :
         UpdateOrderStatus(uid, p_id, expected, target)

SpecStatusUpdates == Init /\ [][NextStatusUpdates]_vars

\* Order headers inserted by themselves, with the status the client submits,
\* and status updates by every user.
NextInserts ==
  \/ \E uid \in Users, user_id \in OrderOwners, status \in InsertStatuses,
        given_code \in ClientCodes :
       InsertOrder(uid, user_id, status, 1600, given_code)
  \/ \E uid \in Users, p_id \in 1..Len(orders), target \in Statuses :
       \E expected \in ReadStatuses(p_id) :
         UpdateOrderStatus(uid, p_id, expected, target)

SpecInserts == Init /\ [][NextInserts]_vars

\* The admin's availability switch, and every user ordering for themselves.
NextMenu ==
  \/ \E uid \in Users, available \in BOOLEAN :
       SetMenuItemAvailability(uid, {"French Fries"}, available)
  \/ \E uid \in Users, items \in ItemLists :
       PlaceOrder(uid, uid, "placed", 1600, NULL, items)
  \/ \E uid \in Users, p_order_id \in 1..Len(orders) :
       InsertOrderItem(uid, p_order_id, "French Fries", 1, 350)

SpecMenu == Init /\ [][NextMenu]_vars

\* the keys and values of catalogue statements in the model
MenuItemIds == {"French Fries", "Soup"}

CategoryNames == {"Sides", "Specials"}

Prices == {350, 400}

SettingKeys == {"max_concurrent_orders", "kiosk_mode"}

SettingValues == {50, 60}

\* Every user issuing every statement on the catalogue tables.
NextCatalog ==
  \/ \E uid \in Users, category \in CategoryNames, price \in Prices :
       InsertMenuItem(uid, "Soup", category, price)
  \/ \E uid \in Users, id \in MenuItemIds, price \in Prices :
       UpdateMenuItemPrice(uid, id, price)
  \/ \E uid \in Users, id \in MenuItemIds, available \in BOOLEAN :
       SetMenuItemAvailability(uid, {id}, available)
  \/ \E uid \in Users, id \in MenuItemIds : DeleteMenuItem(uid, id)
  \/ \E uid \in Users, name \in CategoryNames, active \in BOOLEAN :
       InsertMenuCategory(uid, name, active)
  \/ \E uid \in Users, name \in CategoryNames, active \in BOOLEAN :
       UpdateMenuCategory(uid, name, active)
  \/ \E uid \in Users, name \in CategoryNames : DeleteMenuCategory(uid, name)
  \/ \E uid \in Users, key \in SettingKeys, value \in SettingValues :
       InsertCafeteriaSetting(uid, key, value)
  \/ \E uid \in Users, key \in SettingKeys, value \in SettingValues :
       UpdateCafeteriaSetting(uid, key, value)
  \/ \E uid \in Users, key \in SettingKeys : DeleteCafeteriaSetting(uid, key)

SpecCatalog == Init /\ [][NextCatalog]_vars

\* Sign-ups, and every signed-up identity inserting and updating profiles.
NextProfiles ==
  \/ \E new_id \in Identities, full_name \in FullNames : SignUp(new_id, full_name)
  \/ \E uid \in Identities, user_id \in Identities, role \in Roles, full_name \in FullNames :
       InsertProfile(uid, user_id, role, full_name)
  \/ \E uid \in Identities, user_id \in Identities, role \in Roles, full_name \in FullNames :
       UpdateProfile(uid, user_id, role, full_name)

SpecProfiles == Init /\ [][NextProfiles]_vars

\* Orders placed by their owner, status updates by every user, and every
\* user inserting, updating and deleting history rows.
NextHistory ==
  \/ \E user_id \in OrderOwners, items \in ItemLists :
       PlaceOrder(user_id, user_id, "placed", 1600, NULL, items)
  \/ \E uid \in Users, p_id \in 1..Len(orders), target \in Statuses :
       \E expected \in ReadStatuses(p_id) :
         UpdateOrderStatus(uid, p_id, expected, target)
  \/ \E uid \in Customers, p_order_id \in 1..Len(orders) :
       InsertOrderHistory(uid, p_order_id, "placed", "ready")
  \/ \E uid \in Users, k \in 1..Len(order_status_history), new_status \in Statuses :
       UpdateOrderHistory(uid, k, new_status)
  \/ \E uid \in Users, k \in 1..Len(order_status_history) :
       DeleteOrderHistory(uid, k)

SpecHistory == Init /\ [][NextHistory]_vars

\* Orders placed by their owner, items added to them, price changes of the
\* menu, and every user updating order items and order statuses.
NextPrices ==
  \/ \E user_id \in OrderOwners, items \in ItemLists :
       PlaceOrder(user_id, user_id, "placed", 1600, NULL, items)
  \/ \E uid \in OrderOwners, p_order_id \in 1..Len(orders) :
       InsertOrderItem(uid, p_order_id, "French Fries", 1, menu_items["French Fries"].price)
  \/ \E uid \in Users, price \in Prices :
       UpdateMenuItemPrice(uid, "French Fries", price)
  \/ \E uid \in Users, k \in 1..Len(order_items), unit_price \in Prices :
       UpdateOrderItem(uid, k, unit_price)
  \/ \E uid \in Users, p_id \in 1..Len(orders), target \in {"confirmed", "cancelled"} :
       UpdateOrderStatus(uid, p_id, orders[p_id].status, target)

SpecPrices == Init /\ [][NextPrices]_vars

\* the arrays of notification ids a client marks as read
IdArrays == {{1}, {1, 2}, {2, 3}}

\* Orders placed by their owner, status updates by the staff member, and
\* every user marking notifications as read, through the function and
\* through the statement.
NextNotifications ==
  \/ \E user_id \in OrderOwners, items \in ItemLists :
       PlaceOrder(user_id, user_id, "placed", 1600, NULL, items)
  \/ \E p_id \in 1..Len(orders), target \in {"ready", "completed"} :
       UpdateOrderStatus("sam", p_id, orders[p_id].status, target)
  \/ \E uid \in Users, p_user_id \in OrderOwners,
        p_notification_ids \in {NullIds} \cup { ArrayOf(ids) : ids \in IdArrays } :
       CallMarkNotificationsRead(uid, p_user_id, p_notification_ids)
  \/ \E uid \in Users, user_id \in OrderOwners, ids \in IdArrays :
       MarkNotificationsRead(uid, user_id, ids)

SpecNotifications == Init /\ [][NextNotifications]_vars

\* the arrays of order ids of a bulk cancellation
OrderIdArrays == {{1}, {1, 2}}

\* Orders placed by their owner, the staff member moving them along the
\* lifecycle, and every user cancelling orders in bulk.
NextBulk ==
  \/ \E user_id \in OrderOwners, items \in ItemLists :
       PlaceOrder(user_id, user_id, "placed", 1600, NULL, items)
  \/ \E p_id \in 1..Len(orders), target \in {"confirmed", "preparing", "ready", "completed"} :
       UpdateOrderStatus("sam", p_id, orders[p_id].status, target)
  \/ \E uid \in Users, ids \in OrderIdArrays : CancelOrders(uid, ids)

SpecBulk == Init /\ [][NextBulk]_vars

\* Orders placed by their owner, status updates by every user, and every
\* user writing the pickup code of an order.
NextCodes ==
  \/ \E user_id \in OrderOwners, items \in ItemLists :
       PlaceOrder(user_id, user_id, "placed", 1600, NULL, items)
  \/ \E uid \in Users, p_id \in 1..Len(orders), target \in Statuses :
       UpdateOrderStatus(uid, p_id, orders[p_id].status, target)
  \/ \E uid \in Users, p_id \in 1..Len(orders), pickup_code \in ClientCodes :
       UpdateOrderPickupCode(uid, p_id, pickup_code)

SpecCodes == Init /\ [][NextCodes]_vars

\* Orders placed by their owner, made ready by the staff member, and
\* customers inserting notifications.
NextInbox ==
  \/ \E user_id \in OrderOwners, items \in ItemLists :
       PlaceOrder(user_id, user_id, "placed", 1600, NULL, items)
  \/ \E p_id \in 1..Len(orders), target \in {"ready", "completed"} :
       UpdateOrderStatus("sam", p_id, orders[p_id].status, target)
  \/ \E uid \in Customers, user_id \in Users, order_id \in 1..(Len(orders) + 1),
        type \in {"order_ready", "system_message", "promotion"} :
       InsertNotification(uid, user_id, order_id, type)

SpecInbox == Init /\ [][NextInbox]_vars

\* the pickup codes presented at the counter: those the model issues and one
\* it never issues
CounterCodes == { LPAD(ToText(n), 4, "0") : n \in RandomDraws } \cup {"1234"}

\* Orders placed by their owner, made ready by the staff member, and every
\* user completing orders by pickup code in two sessions.
NextPickup ==
  \/ \E user_id \in OrderOwners, items \in ItemLists :
       PlaceOrder(user_id, user_id, "placed", 1600, NULL, items)
  \/ \E p_id \in 1..Len(orders) :
       UpdateOrderStatus("sam", p_id, orders[p_id].status, "ready")
  \/ \E s \in Sessions, uid \in Users, p_pickup_code \in CounterCodes :
       BeginCompleteOrder(s, uid, p_pickup_code)
  \/ \E s \in Sessions : FinishCompleteOrder(s)

SpecPickup == Init /\ [][NextPickup]_vars

\* The auth client changing its answer, and the app asking for the session
\* and running its authentication test.
NextAuth ==
  \/ \E answer \in AuthAnswers : ChangeAuth(answer)
  \/ CallGetCurrentSession
  \/ RunTestAuthConfiguration

SpecAuth == Init /\ [][NextAuth]_vars

----------------------------------------------------------------------------
(* Properties *)

\* the history rows of order p_id, in insertion order
HistoryOf(history, p_id) == SelectSeq(history, LAMBDA h : h.order_id = p_id)

\* the state graph of the order lifecycle
LegalTransitions ==
  { <<"placed", "confirmed">>, <<"confirmed", "preparing">>, <<"preparing", "ready">>,
    <<"ready", "completed">>, <<"placed", "cancelled">>, <<"confirmed", "cancelled">> }

\* C1: no statement, whoever issues it, changes an order's status other than
\* along a legal transition: across a step that is not a legal transition of
\* an order, its status, its completed_at and its history are unchanged.
C1_IllegalTransitionLeavesOrderUnchanged ==
  [][ \A p_id \in 1..Len(orders) :
        <<orders[p_id].status, orders'[p_id].status>> \notin LegalTransitions
          => /\ orders'[p_id].status = orders[p_id].status
             /\ orders'[p_id].completed_at = orders[p_id].completed_at
             /\ HistoryOf(order_status_history', p_id)
                  = HistoryOf(order_status_history, p_id) ]_vars

\* C2: any two distinct orders whose statuses are both outside
\* {completed, cancelled} have different pickup codes.
C2_ActivePickupCodesDistinct ==
  \A i, j \in 1..Len(orders) :
    ( /\ i # j
      /\ orders[i].status \notin TerminalStatuses
      /\ orders[j].status \notin TerminalStatuses )
    => orders[i].pickup_code # orders[j].pickup_code

\* C2 witness: two orders are active at once, one of them after a status update.
C2_Witness ==
  \E i, j \in 1..Len(orders) :
    /\ i # j
    /\ orders[i].status \notin TerminalStatuses
    /\ orders[j].status \notin TerminalStatuses
    /\ HistoryOf(order_status_history, i) # << >>

\* C5: every order's total_amount equals the sum of quantity * unit_price over
\* its items, within 0.05.
C5_TotalMatchesItems ==
  \A p_id \in 1..Len(orders) : ~ validate_order_total(order_items, orders[p_id])

\* C8: an order whose status is completed or cancelled keeps that status in
\* every step.
C8_TerminalStatusNeverChanges ==
  [][ \A p_id \in 1..Len(orders) :
        orders[p_id].status \in TerminalStatuses
          => orders'[p_id].status = orders[p_id].status ]_vars

\* C9: a step that changes an order's status from s to t appends exactly one
\* history row for that order, with previous_status = s and new_status = t.
C9_StatusChangeAppendsOneHistoryRow ==
  [][ \A p_id \in 1..Len(orders) :
        orders'[p_id].status # orders[p_id].status
          => LET before == HistoryOf(order_status_history, p_id)
                 after  == HistoryOf(order_status_history', p_id)
             IN  /\ Len(after) = Len(before) + 1
                 /\ SubSeq(after, 1, Len(before)) = before
                 /\ after[Len(after)].previous_status = orders[p_id].status
                 /\ after[Len(after)].new_status = orders'[p_id].status ]_vars

\* C9 witness: an order's status has been changed, and its latest history row
\* records that change.
C9_Witness ==
  \E p_id \in 1..Len(orders) :
    LET h == HistoryOf(order_status_history, p_id)
    IN  /\ h # << >>
        /\ h[Len(h)].new_status = orders[p_id].status
        /\ h[Len(h)].previous_status # orders[p_id].status

\* C10: the step that creates an order leaves it with exactly one history
\* row, from no previous status to placed.
C10_CreationWritesOneHistoryRow ==
  [][ Len(orders') > Len(orders)
        => LET h == HistoryOf(order_status_history', Len(orders'))
           IN  /\ Len(h) = 1
               /\ h[1].previous_status = NULL
               /\ h[1].new_status = "placed" ]_vars

\* the outcome r1 of the update that takes the row lock first: it updates the
\* row, the status becomes its target and the order's history gains exactly
\* one row, from expected to that target
WinnerUpdates(r1, p_id, expected, target1) ==
  LET before == HistoryOf(order_status_history, p_id)
      after  == HistoryOf(r1.db.order_status_history, p_id)
  IN  /\ r1.error = "none" /\ r1.rows = 1
      /\ r1.db.orders[p_id].status = target1
      /\ Len(after) = Len(before) + 1
      /\ SubSeq(after, 1, Len(before)) = before
      /\ after[Len(after)].previous_status = expected
      /\ after[Len(after)].new_status = target1

\* the update that waited for the lock re-checks its condition on the row r1
\* left: it matches no row and changes nothing
LoserMatchesNoRow(r1, uid2, p_id, expected, target2) ==
  LET r2 == UpdateOrderStatusStmt(r1.db, uid2, p_id, expected, target2)
  IN  r2.error = "none" /\ r2.rows = 0 /\ r2.db = r1.db

\* the update updates the row when it runs alone
UpdatesAlone(uid, p_id, expected, target) ==
  UpdateOrderStatusStmt(DB, uid, p_id, expected, target).rows = 1

\* C3 as stated: of two updates of the same order conditioned on its current
\* status, with different targets, whichever takes the row lock first updates
\* the row and the other updates zero rows; the status is the winner's target
\* and the history gains exactly one row, the winner's.
C3_ExactlyOneUpdateWins ==
  \A p_id \in 1..Len(orders) :
    LET expected == orders[p_id].status
    IN  \A a \in Users \X Statuses :
          LET r1 == UpdateOrderStatusStmt(DB, a[1], p_id, expected, a[2])
          IN  \A b \in Users \X Statuses :
                a[2] # b[2]
                => /\ WinnerUpdates(r1, p_id, expected, a[2])
                   /\ LoserMatchesNoRow(r1, b[1], p_id, expected, b[2])

\* C3 amended: the same, for two updates whose targets both differ from the
\* expected status and each of which updates the row when it runs alone (the
\* policies admit its actor for the old and for the new row).
C3_ExactlyOneStatusChangeWins ==
  \A p_id \in 1..Len(orders) :
    LET expected == orders[p_id].status
        able == { a \in Users \X (Statuses \ {expected}) :
                    UpdatesAlone(a[1], p_id, expected, a[2]) }
    IN  \A a \in able :
          LET r1 == UpdateOrderStatusStmt(DB, a[1], p_id, expected, a[2])
              rivals == { b \in able : b[2] # a[2] }
          IN  rivals # {}
              => /\ WinnerUpdates(r1, p_id, expected, a[2])
                 /\ \A b \in rivals :
                      LoserMatchesNoRow(r1, b[1], p_id, expected, b[2])

\* C3 witness: one update has moved an order from expected to its target and
\* logged it, and an update to another target that read the same expected
\* status, by an actor the policies admit, now matches no row.
C3_Witness ==
  \E p_id \in 1..Len(orders), uid2 \in Users, target2 \in Statuses :
    LET h == HistoryOf(order_status_history, p_id)
    IN  /\ h # << >>
        /\ h[Len(h)].new_status = orders[p_id].status
        /\ h[Len(h)].previous_status # orders[p_id].status
        /\ target2 \notin {h[Len(h)].previous_status, h[Len(h)].new_status}
        /\ OrdersUpdateUsing(uid2, orders[p_id])
        /\ OrdersUpdateWithCheck(uid2, [orders[p_id] EXCEPT !.status = target2])
        /\ UpdateOrderStatusStmt(DB, uid2, p_id, h[Len(h)].previous_status, target2).rows = 0

\* C4: a step that commits a new order never leaves it non-terminal with the
\* pickup code of another non-terminal order, also when its code was drawn
\* before the other order was committed.
C4_ConcurrentCreationsNeverShareCode ==
  [][ Len(orders') > Len(orders)
        => \A i \in 1..Len(orders) :
             ( /\ orders'[i].status \notin TerminalStatuses
               /\ orders'[Len(orders')].status \notin TerminalStatuses )
             => orders'[i].pickup_code # orders'[Len(orders')].pickup_code ]_vars

\* C4 witness: a session holds a generated code that passed the pre-check,
\* another order has since been committed non-terminal with that code, and the
\* session's insert raises unique_violation.
C4_Witness ==
  \E s \in Sessions, i \in 1..Len(orders), items \in ItemLists :
    /\ drawn[s] # Idle
    /\ drawn[s].generated
    /\ orders[i].pickup_code = drawn[s].code
    /\ orders[i].status \notin TerminalStatuses
    /\ PlaceOrderTxn(DB, "ana", "ana", "placed", 1600, drawn[s].code, items).error
         = "unique_violation"

\* the customer who owns order p_id
IsOwningCustomer(uid, p_id) == uid = orders[p_id].user_id /\ ~ is_staff(uid)

\* C6: every update by the owning customer that sets another status, other
\* than cancelled on an order that is placed or confirmed, is rejected and
\* leaves the tables unchanged.
C6_OwnerOnlyCancelsPending ==
  \A p_id \in 1..Len(orders), uid \in Users, expected, target \in Statuses :
    ( /\ IsOwningCustomer(uid, p_id)
      /\ target # orders[p_id].status
      /\ ~ (orders[p_id].status \in {"placed", "confirmed"} /\ target = "cancelled") )
    => LET r == UpdateOrderStatusStmt(DB, uid, p_id, expected, target)
       IN  r.rows = 0 /\ r.db = DB

\* C7: the owning customer's update of a placed or confirmed order to
\* cancelled commits and the order becomes cancelled.
C7_OwnerCancelsPending ==
  \A p_id \in 1..Len(orders), uid \in Users :
    ( IsOwningCustomer(uid, p_id) /\ orders[p_id].status \in {"placed", "confirmed"} )
    => LET r == UpdateOrderStatusStmt(DB, uid, p_id, orders[p_id].status, "cancelled")
       IN  /\ r.error = "none"
           /\ r.rows = 1
           /\ r.db.orders[p_id].status = "cancelled"

\* C11: the history row of a status change names the principal who issued
\* the update as changed_by.
C11_HistoryRecordsActor ==
  \A p_id \in 1..Len(orders), uid \in Users, target \in Statuses :
    LET r == UpdateOrderStatusStmt(DB, uid, p_id, orders[p_id].status, target)
        h == r.db.order_status_history
    IN  ( r.rows = 1 /\ target # orders[p_id].status )
        => h[Len(h)].changed_by = uid

\* the order row without its updated_at column
WithoutUpdatedAt(row) == [f \in DOMAIN row \ {"updated_at"} |-> row[f]]

\* C12 as stated: an update of an order to the status it has raises no error,
\* adds no history row and no notification, and leaves every column of the
\* order row unchanged.
C12_SameStatusUpdateChangesNothing ==
  \A p_id \in 1..Len(orders), uid \in Users :
    LET r == UpdateOrderStatusStmt(DB, uid, p_id, orders[p_id].status, orders[p_id].status)
    IN  /\ r.error = "none"
        /\ r.db.order_status_history = order_status_history
        /\ r.db.notifications = notifications
        /\ r.db.orders[p_id] = orders[p_id]

\* C12 amended: such an update raises no error, updates the row when the
\* policies admit its issuer, adds no history row and no notification, and
\* leaves every column of the order row other than updated_at unchanged.
C12_SameStatusUpdateChangesOnlyUpdatedAt ==
  \A p_id \in 1..Len(orders), uid \in Users :
    LET r == UpdateOrderStatusStmt(DB, uid, p_id, orders[p_id].status, orders[p_id].status)
    IN  /\ r.error = "none"
        /\ r.rows = (IF OrdersUpdateUsing(uid, orders[p_id]) THEN 1 ELSE 0)
        /\ r.db.order_status_history = order_status_history
        /\ r.db.notifications = notifications
        /\ WithoutUpdatedAt(r.db.orders[p_id]) = WithoutUpdatedAt(orders[p_id])
        /\ r.rows = 1 => r.db.orders[p_id].updated_at = NOW

\* C12 witness: an order has been updated to the status it had, and nothing
\* but its updated_at shows it.
C12_Witness ==
  \E p_id \in 1..Len(orders) :
    /\ orders[p_id].updated_at = NOW
    /\ HistoryOf(order_status_history, p_id) = << >>
    /\ orders[p_id].status = "placed"

\* the pickup codes a caller presents: those the model issues and one it never issues
PresentedCodes == { LPAD(ToText(n), 4, "0") : n \in RandomDraws } \cup {"1234"}

C14_CompletedOrderNeverVerifiesAgain ==
  [][ \A p_id \in 1..Len(orders) :
        /\ orders[p_id].status = "ready"
             => \E k \in 1..Len(verify_pickup_code(orders, orders[p_id].pickup_code)) :
                  verify_pickup_code(orders, orders[p_id].pickup_code)[k].order_id = p_id
        /\ orders[p_id].status = "completed"
             => ~ \E k \in 1..Len(verify_pickup_code(orders', orders'[p_id].pickup_code)) :
                    verify_pickup_code(orders', orders'[p_id].pickup_code)[k].order_id = p_id
    ]_vars

\* C15: no order has status completed with completed_at NULL.
C15_CompletedHasCompletedAt ==
  \A p_id \in 1..Len(orders) :
    orders[p_id].status = "completed" => orders[p_id].completed_at # NULL

\* C16: order creation never fails with a pickup-code collision: whatever code
\* the allocation hands to the INSERT, the transaction does not raise
\* unique_violation.
C16_CreationNeverFailsOnCodeCollision ==
  \A uid \in OrderOwners, items \in ItemLists :
    \A code \in set_pickup_code(orders, uid, NULL) :
      PlaceOrderTxn(DB, uid, uid, "placed", 1600, code, items).error # "unique_violation"

\* the orders outside completed/cancelled
NonTerminalOrders == { i \in 1..Len(orders) : orders[i].status \notin TerminalStatuses }

\* C17: a code held only by completed or cancelled orders can be given to a
\* new order, and while fewer orders are non-terminal than there are codes
\* some code the allocation can draw lets the creation commit.
C17_TerminalCodesAreReusable ==
  \A uid \in OrderOwners, items \in ItemLists :
    /\ \A code \in generate_pickup_code(orders, uid) :
         PlaceOrderTxn(DB, uid, uid, "placed", 1600, code, items).error = "none"
    /\ Cardinality(NonTerminalOrders) < Cardinality(RandomDraws)
         => \E code \in generate_pickup_code(orders, uid) :
              PlaceOrderTxn(DB, uid, uid, "placed", 1600, code, items).error = "none"

\* C18: every order row a step adds has status placed, whatever status the
\* INSERT submitted.
C18_NewOrderIsPlaced ==
  [][ \A p_id \in (Len(orders) + 1)..Len(orders') : orders'[p_id].status = "placed" ]_vars

\* C19: no step that adds an order adds an order item for a menu item that is
\* unavailable: a creation that includes one leaves no order behind.
C19_UnavailableItemBlocksCreation ==
  [][ Len(orders') > Len(orders)
        => \A k \in (Len(order_items) + 1)..Len(order_items') :
             menu_items[order_items'[k].menu_item_id].available ]_vars

\* the order_ready notifications of order p_id, in insertion order
ReadyNotificationsOf(notifs, p_id) ==
  SelectSeq(notifs, LAMBDA n : n.type = "order_ready" /\ n.order_id = p_id)

\* C20: a step that changes the status of an order to ready adds, in the same
\* step, exactly one order_ready notification for it, addressed to the owner
\* and carrying the order's pickup code; every other step adds none.
C20_ReadyNotifiesOwnerOnce ==
  [][ /\ \A p_id \in 1..Len(orders) :
           LET before == ReadyNotificationsOf(notifications, p_id)
               after  == ReadyNotificationsOf(notifications', p_id)
           IN  IF orders[p_id].status # "ready" /\ orders'[p_id].status = "ready"
                 THEN after = Append(before, [user_id     |-> orders'[p_id].user_id,
                                              order_id    |-> p_id,
                                              type        |-> "order_ready",
                                              pickup_code |-> orders'[p_id].pickup_code,
                                              read_at     |-> NULL])
                 ELSE after = before
      /\ \A p_id \in (Len(orders) + 1)..Len(orders') :
           ReadyNotificationsOf(notifications', p_id) = << >>
    ]_vars

\* C20 witness: an order has become ready and its one order_ready
\* notification is in the owner's list, while another order that never was
\* ready has none.
C20_Witness ==
  \E p_id, q_id \in 1..Len(orders) :
    /\ orders[p_id].status = "ready"
    /\ Len(ReadyNotificationsOf(notifications, p_id)) = 1
    /\ ReadyNotificationsOf(notifications, p_id)[1].user_id = orders[p_id].user_id
    /\ ReadyNotificationsOf(notifications, p_id)[1].pickup_code = orders[p_id].pickup_code
    /\ Len(HistoryOf(order_status_history, q_id)) > 0
    /\ ReadyNotificationsOf(notifications, q_id) = << >>

\* the order_placed notifications of order p_id, in insertion order
PlacedNotificationsOf(notifs, p_id) ==
  SelectSeq(notifs, LAMBDA n : n.type = "order_placed" /\ n.order_id = p_id)

\* C21: a step that creates an order adds exactly one order_placed
\* notification, addressed to the order's owner and referencing the order,
\* and no step adds one for an order that exists already.
C21_CreationNotifiesOwnerOnce ==
  [][ /\ \A p_id \in (Len(orders) + 1)..Len(orders') :
           /\ Len(PlacedNotificationsOf(notifications', p_id)) = 1
           /\ PlacedNotificationsOf(notifications', p_id)[1].user_id = orders'[p_id].user_id
           /\ Len(notifications') = Len(notifications) + 1
      /\ \A p_id \in 1..Len(orders) :
           PlacedNotificationsOf(notifications', p_id) = PlacedNotificationsOf(notifications, p_id)
    ]_vars

\* C21 witness: two orders have been created, each has its one order_placed
\* notification and there is no other notification, in a state where an
\* item is unavailable (creations with it by staff have raised).
C21_Witness ==
  /\ Len(orders) = 2
  /\ \A p_id \in 1..2 : Len(PlacedNotificationsOf(notifications, p_id)) = 1
  /\ Len(notifications) = 2
  /\ \E m \in DOMAIN menu_items : ~ menu_items[m].available

\* the ids of the orders user uid owns
OwnOrders(uid) == { i \in 1..Len(orders) : orders[i].user_id = uid }

\* the orders whose row, items, history or payment uid reads from the tables
ReadFromTables(uid) ==
  { SelectOrders(DB, uid)[k].id : k \in 1..Len(SelectOrders(DB, uid)) }
  \cup { SelectOrderItems(DB, uid)[k].order_id : k \in 1..Len(SelectOrderItems(DB, uid)) }
  \cup { SelectOrderStatusHistory(DB, uid)[k].order_id :
           k \in 1..Len(SelectOrderStatusHistory(DB, uid)) }
  \cup { SelectPayments(DB, uid)[k].order_id : k \in 1..Len(SelectPayments(DB, uid)) }

\* the orders a caller reads from verify_pickup_code with code
ReadFromVerify(code) ==
  { verify_pickup_code(orders, code)[k].order_id :
      k \in 1..Len(verify_pickup_code(orders, code)) }

\* C22 as stated: whatever a customer reads, from the tables or from
\* verify_pickup_code, belongs to an order the customer owns; staff and
\* admins read every order.
C22_CustomerReadsOnlyOwnOrders ==
  \A uid \in Users :
    IF is_staff(uid)
      THEN ReadFromTables(uid) = 1..Len(orders)
      ELSE /\ ReadFromTables(uid) \subseteq OwnOrders(uid)
           /\ \A code \in PresentedCodes : ReadFromVerify(code) \subseteq OwnOrders(uid)

\* C22 amended: from the tables a customer reads the rows, items, history
\* entries and payments of exactly the orders the customer owns, staff and
\* admins read those of every order; verify_pickup_code returns to any
\* caller the ready order that holds the presented code and nothing else.
C22_TablesShowOwnOrdersVerifyShowsReadyOrder ==
  /\ \A uid \in Users :
       LET mine == IF is_staff(uid) THEN 1..Len(orders) ELSE OwnOrders(uid)
       IN  /\ SelectOrders(DB, uid) = SelectSeq(orders, LAMBDA r : r.id \in mine)
           /\ SelectOrderItems(DB, uid) = SelectSeq(order_items, LAMBDA r : r.order_id \in mine)
           /\ SelectOrderStatusHistory(DB, uid)
                = SelectSeq(order_status_history, LAMBDA r : r.order_id \in mine)
           /\ SelectPayments(DB, uid) = SelectSeq(payments, LAMBDA r : r.order_id \in mine)
  /\ \A code \in PresentedCodes :
       ReadFromVerify(code)
         = { i \in 1..Len(orders) : orders[i].pickup_code = code /\ orders[i].status = "ready" }

\* C22 witness: an order with items, history and payment is ready; its
\* owner and the staff read it from the tables, another customer reads
\* nothing from the tables and reads it from verify_pickup_code.
C22_Witness ==
  \E p_id \in 1..Len(orders), uid \in Customers :
    /\ orders[p_id].status = "ready"
    /\ orders[p_id].user_id # uid
    /\ HistoryOf(order_status_history, p_id) # << >>
    /\ p_id \in ReadFromTables(orders[p_id].user_id)
    /\ \E st \in Users : is_staff(st) /\ p_id \in ReadFromTables(st)
    /\ ReadFromTables(uid) = {}
    /\ p_id \in ReadFromVerify(orders[p_id].pickup_code)

\* the outcome r of a statement on table tbl is a rejection: an error or no
\* row affected, and the table as it was
Rejected(r, tbl) == r.tbl = tbl /\ (r.error # "none" \/ r.rows = 0)

\* C23: every INSERT, UPDATE and DELETE on menu_categories, menu_items and
\* cafeteria_settings issued by a principal who is not an admin is rejected
\* and leaves the table unchanged; only an admin's statement changes a row.
C23_OnlyAdminChangesCatalog ==
  \A uid \in Users :
    ~ is_admin(uid) =>
      /\ \A name \in CategoryNames, active \in BOOLEAN :
           /\ Rejected(InsertMenuCategoryStmt(menu_categories, uid, name, [active |-> active]),
                       menu_categories)
           /\ Rejected(UpdateMenuCategoryStmt(menu_categories, uid, name, active),
                       menu_categories)
           /\ Rejected(DeleteMenuCategoryStmt(menu_categories, menu_items, uid, name),
                       menu_categories)
      /\ \A id \in MenuItemIds, price \in Prices, category \in CategoryNames :
           /\ Rejected(InsertMenuItemStmt(menu_items, menu_categories, uid, id,
                         [category |-> category, price |-> price, available |-> TRUE]),
                       menu_items)
           /\ Rejected(UpdateMenuItemPriceStmt(menu_items, uid, id, price), menu_items)
           /\ Rejected(DeleteMenuItemStmt(menu_items, order_items, uid, id), menu_items)
      /\ \A key \in SettingKeys, value \in SettingValues :
           /\ Rejected(InsertCafeteriaSettingStmt(cafeteria_settings, uid, key,
                         [value |-> value]), cafeteria_settings)
           /\ Rejected(UpdateCafeteriaSettingStmt(cafeteria_settings, uid, key, value),
                       cafeteria_settings)
           /\ Rejected(DeleteCafeteriaSettingStmt(cafeteria_settings, uid, key),
                       cafeteria_settings)

\* C23 witness: the admin has inserted a menu item and a category, changed a
\* price and a setting and deleted a setting, and the statements of staff
\* and customers in between have changed nothing.
C23_Witness ==
  /\ "Soup" \in DOMAIN menu_items
  /\ "Specials" \in DOMAIN menu_categories
  /\ "French Fries" \in DOMAIN menu_items /\ menu_items["French Fries"].price = 400
  /\ DOMAIN cafeteria_settings = {"kiosk_mode"}
  /\ cafeteria_settings["kiosk_mode"].value = 60

\* the role column of the profiles table profs
RolesOf(profs) == [u \in DOMAIN profs |-> profs[u].role]

C25_HistoryOnlyGrows ==
  [][ /\ Len(order_status_history') >= Len(order_status_history)
      /\ SubSeq(order_status_history', 1, Len(order_status_history)) = order_status_history
    ]_vars

\* C25 witness: the history holds a row written by the trigger and a row a
\* customer inserted, both as they were written.
C25_Witness ==
  /\ Len(order_status_history) = 2
  /\ order_status_history[1].changed_by = "ana"
  /\ order_status_history[1].new_status = "confirmed"
  /\ order_status_history[2] = [order_id |-> 1, previous_status |-> "placed",
                                new_status |-> "ready", changed_by |-> "ben"]

\* C26: every order item a step inserts has as unit_price the price the
\* referenced menu item has at that moment, whatever price the client sent.
C26_UnitPriceIsMenuPrice ==
  [][ \A k \in (Len(order_items) + 1)..Len(order_items') :
        order_items'[k].unit_price = menu_items[order_items'[k].menu_item_id].price ]_vars

\* C27: every step leaves each order item it finds in place with the
\* unit_price it had, a step that changes the menu item's price included.
C27_UnitPriceNeverChanges ==
  [][ \A k \in 1..Len(order_items) :
        /\ k <= Len(order_items')
        /\ order_items'[k].order_id = order_items[k].order_id
        /\ order_items'[k].menu_item_id = order_items[k].menu_item_id
        /\ order_items'[k].unit_price = order_items[k].unit_price ]_vars

\* C27 witness: an order item keeps the price it was inserted with after the
\* menu item's price has changed.
C27_Witness ==
  \E k \in 1..Len(order_items) :
    /\ order_items[k].menu_item_id = "French Fries"
    /\ order_items[k].unit_price = 350
    /\ menu_items["French Fries"].price = 400

\* the texts of exactly four decimal digits
FourDigitCodes ==
  { DigitText(a) \o DigitText(b) \o DigitText(c) \o DigitText(d) : a, b, c, d \in 0..9 }

\* C28: the pickup code of every order is a text of exactly four decimal
\* digits, whether the database generated it or the client supplied it.
C28_PickupCodeIsFourDigits ==
  \A p_id \in 1..Len(orders) : orders[p_id].pickup_code \in FourDigitCodes

\* the rank of a status in the staff queue
QueueRank == [status \in Statuses |->
                IF status = "placed" THEN 1 ELSE IF status = "confirmed" THEN 2
                ELSE IF status = "preparing" THEN 3 ELSE IF status = "ready" THEN 4
                ELSE 0]

\* C29: the queue a staff member or admin reads holds each order whose
\* status is placed, confirmed, preparing or ready exactly once and no other
\* order, and lists them by status priority and, within one status, in the
\* order of their creation.
C29_StaffQueueIsActiveOrdersByPriority ==
  \A uid \in Users :
    is_staff(uid) =>
      LET q == StaffQueueStmt(DB, uid)
          active == { p_id \in 1..Len(orders) :
                        orders[p_id].status \in {"placed", "confirmed", "preparing", "ready"} }
      IN  /\ { q[i].id : i \in 1..Len(q) } = active
          /\ Len(q) = Cardinality(active)
          /\ \A i \in 1..Len(q) : q[i].status = orders[q[i].id].status
          /\ \A i, j \in 1..Len(q) :
               i < j =>
                 \/ QueueRank[q[i].status] < QueueRank[q[j].status]
                 \/ /\ QueueRank[q[i].status] = QueueRank[q[j].status]
                    /\ q[i].id < q[j].id

\* C29 witness: of two active orders the one created later is placed and the
\* earlier one ready, and the staff member's queue lists the later one first.
C29_Witness ==
  /\ Len(orders) = 2
  /\ orders[1].status = "ready"
  /\ orders[2].status = "placed"
  /\ Len(StaffQueueStmt(DB, "sam")) = 2
  /\ StaffQueueStmt(DB, "sam")[1].id = 2

\* the unread notifications of p_user_id among those a call targets
TargetedUnread(notifs, p_user_id, p_notification_ids) ==
  { i \in 1..Len(notifs) :
      /\ notifs[i].user_id = p_user_id
      /\ p_notification_ids.is_null \/ i \in p_notification_ids.ids
      /\ notifs[i].read_at = NULL }

\* a mark-read call that returned count and left notifs1 of notifs0 has marked
\* exactly the targeted unread notifications and has returned their number
MarksExactly(notifs0, notifs1, count, p_user_id, p_notification_ids) ==
  LET targeted == TargetedUnread(notifs0, p_user_id, p_notification_ids)
  IN  /\ count = Cardinality(targeted)
      /\ Len(notifs1) = Len(notifs0)
      /\ \A i \in 1..Len(notifs0) :
           IF i \in targeted
             THEN /\ notifs1[i].read_at # NULL
                  /\ notifs1[i] = [notifs0[i] EXCEPT !.read_at = notifs1[i].read_at]
             ELSE notifs1[i] = notifs0[i]

\* the calls of the function: every user's notifications, all of them or some
MarkReadArguments ==
  {NullIds} \cup { ArrayOf(ids) : ids \in SUBSET (1..Len(notifications)) }

\* the function marks exactly the targeted unread notifications and returns
\* their count, and the same call again returns 0 and changes nothing
FunctionMarksExactlyAndOnce ==
  \A p_user_id \in Users, p_notification_ids \in MarkReadArguments :
    LET r1 == mark_notifications_read(notifications, p_user_id, p_notification_ids)
        r2 == mark_notifications_read(r1.notifications, p_user_id, p_notification_ids)
    IN  /\ MarksExactly(notifications, r1.notifications, r1.rows_updated,
                        p_user_id, p_notification_ids)
        /\ r2.rows_updated = 0
        /\ r2.notifications = r1.notifications

\* the statement run by the user marks exactly the targeted unread
\* notifications and returns their count, and the same statement again
\* returns 0 and changes nothing
StatementMarksExactlyAndOnce ==
  \A user_id \in Users, ids \in SUBSET (1..Len(notifications)) :
    LET r1 == MarkNotificationsReadStmt(DB, user_id, user_id, ids)
        r2 == MarkNotificationsReadStmt(r1.db, user_id, user_id, ids)
    IN  /\ MarksExactly(notifications, r1.db.notifications, r1.rows,
                        user_id, ArrayOf(ids))
        /\ r2.rows = 0
        /\ r2.db = r1.db

\* C30: marking as read, through the function or through the statement,
\* marks exactly the targeted notifications of the user that are unread (all
\* the unread ones when no ids are given) and returns their count; the same
\* call again returns 0 and changes nothing, the read timestamps included.
C30_MarkReadIsExactAndIdempotent ==
  FunctionMarksExactlyAndOnce /\ StatementMarksExactlyAndOnce

\* C31: an admin's DELETE of a menu category that a menu item references
\* raises the foreign-key error and leaves the categories as they are (the
\* statement writes no other table); the DELETE of a category no item
\* references removes that category and no other.
C31_DeleteCategoryRestrictedByItems ==
  \A uid \in Users, name \in DOMAIN menu_categories :
    is_admin(uid) =>
      LET r == DeleteMenuCategoryStmt(menu_categories, menu_items, uid, name)
      IN  IF \E m \in DOMAIN menu_items : menu_items[m].category = name
            THEN /\ r.error = "foreign_key_violation"
                 /\ r.tbl = menu_categories
            ELSE /\ r.error = "none"
                 /\ r.rows = 1
                 /\ DOMAIN r.tbl = DOMAIN menu_categories \ {name}
                 /\ \A c \in DOMAIN r.tbl : r.tbl[c] = menu_categories[c]

\* C31 witness: the category Sides has been deleted after its item was, while
\* Entrees is still there with an item that references it.
C31_Witness ==
  /\ "Sides" \notin DOMAIN menu_categories
  /\ "Entrees" \in DOMAIN menu_categories
  /\ \E m \in DOMAIN menu_items : menu_items[m].category = "Entrees"

\* C32: the bulk cancellation run by a staff member or an admin raises no
\* error, sets to cancelled each listed order whose status is placed or
\* confirmed, returns their number, and leaves every other order row as it
\* is, the listed orders that are preparing, ready, completed or cancelled
\* included.
C32_BulkCancelHitsPlacedAndConfirmedOnly ==
  \A uid \in Users, ids \in SUBSET (1..(Len(orders) + 1)) :
    is_staff(uid) =>
      LET r == CancelOrdersStmt(DB, uid, ids)
          cancelled == { p_id \in ids \cap (1..Len(orders)) :
                           orders[p_id].status \in {"placed", "confirmed"} }
      IN  /\ r.error = "none"
          /\ r.rows = Cardinality(cancelled)
          /\ Len(r.db.orders) = Len(orders)
          /\ \A p_id \in 1..Len(orders) :
               IF p_id \in cancelled
                 THEN r.db.orders[p_id].status = "cancelled"
                 ELSE r.db.orders[p_id] = orders[p_id]

\* C32 witness: a bulk cancellation has cancelled the first order and has
\* left the second, which is in preparation, as it was.
C32_Witness ==
  /\ Len(orders) = 2
  /\ orders[1].status = "cancelled"
  /\ orders[2].status = "preparing"

\* the ready orders that carry p_pickup_code
ReadyWithCode(ords, p_pickup_code) ==
  { p_id \in 1..Len(ords) :
      ords[p_id].pickup_code = p_pickup_code /\ ords[p_id].status = "ready" }

\* the orders whose row differs between ords0 and ords1
ChangedOrders(ords0, ords1) == { p_id \in 1..Len(ords0) : ords1[p_id] # ords0[p_id] }

\* C33: a completion by pickup code, run by any user, changes at most one
\* order, one that is ready and carries the code, returns a row only for the
\* order it changes, and for a code with no ready order changes nothing and
\* returns no row; run by staff for a code with a ready order it returns that
\* order; and of two completions by staff that have both found the same order,
\* whichever ends first returns the order and the other returns no row and
\* changes nothing.
C33_CompletionByCodeHitsOneReadyOrder ==
  /\ \A uid \in Users, p_pickup_code \in CounterCodes :
       LET r     == CompleteOrderStmt(DB, uid, p_pickup_code)
           ready == ReadyWithCode(orders, p_pickup_code)
       IN  /\ Len(r.db.orders) = Len(orders)
           /\ ChangedOrders(orders, r.db.orders) \subseteq ready
           /\ Cardinality(ChangedOrders(orders, r.db.orders)) = r.rows
           /\ r.rows <= 1
           /\ \A p_id \in ChangedOrders(orders, r.db.orders) :
                r.db.orders[p_id].status = "completed"
           /\ ready = {} => r.rows = 0 /\ r.error = "none" /\ r.db = DB
           /\ ready # {} /\ is_staff(uid) => r.rows = 1
  /\ \A s1, s2 \in Sessions :
       /\ s1 # s2
       /\ scanned[s1].rows # {}
       /\ scanned[s1].rows = scanned[s2].rows
       /\ is_staff(scanned[s1].uid) /\ is_staff(scanned[s2].uid)
       => LET r1 == CompleteOrderUpdate(DB, scanned[s1].uid, scanned[s1].code,
                                        scanned[s1].rows)
              r2 == CompleteOrderUpdate(r1.db, scanned[s2].uid, scanned[s2].code,
                                        scanned[s2].rows)
          IN  /\ r1.rows = 1
              /\ r2.rows = 0
              /\ r2.db = r1.db
  /\ \A s \in Sessions :
       scanned[s].rows # {} /\ ReadyWithCode(orders, scanned[s].code) = {}
       => LET r == CompleteOrderUpdate(DB, scanned[s].uid, scanned[s].code, scanned[s].rows)
          IN  r.rows = 0 /\ r.db = DB

\* C33 witness: a staff completion found order 1 ready and has not ended,
\* and meanwhile another completion has completed that order.
C33_Witness ==
  \E s \in Sessions :
    /\ scanned[s].rows = {1}
    /\ is_staff(scanned[s].uid)
    /\ orders[1].status = "completed"

C35_HistoryIsChainEndingAtStatus ==
  \A p_id \in 1..Len(orders) :
    LET h == HistoryOf(order_status_history, p_id)
    IN  h # << >> =>
          /\ \A k \in 2..Len(h) : h[k].previous_status = h[k - 1].new_status
          /\ h[Len(h)].new_status = orders[p_id].status

\* C36: no call of mark_notifications_read by a principal changes read_at of
\* a notification addressed to another principal, whatever p_user_id and ids
\* the caller passes.
C36_MarkReadTouchesOnlyCallersNotifications ==
  \A uid \in Users, p_user_id \in Users, p_notification_ids \in MarkReadArguments :
    LET r == mark_notifications_read(notifications, p_user_id, p_notification_ids)
    IN  \A i \in 1..Len(notifications) :
          notifications[i].user_id # uid
            => r.notifications[i].read_at = notifications[i].read_at

\* C37: every step leaves each order with the pickup code it had.
C37_PickupCodeNeverChanges ==
  [][ \A p_id \in 1..Len(orders) :
        /\ p_id <= Len(orders')
        /\ orders'[p_id].pickup_code = orders[p_id].pickup_code ]_vars

\* an INSERT INTO order_items for an existing order commits only when the
\* caller owns the order and the order's status is placed
ItemsAddedOnlyByOwnerWhilePlaced ==
  \A uid \in Users, p_order_id \in 1..Len(orders) :
    LET new == [order_id |-> p_order_id, menu_item_id |-> "French Fries",
                quantity |-> 1, unit_price |-> 350]
    IN  InsertOrderItemStmt(DB, uid, new).error = "none"
          => uid = orders[p_order_id].user_id /\ orders[p_order_id].status = "placed"

\* order p_id has left the status placed at some time: its history has the entry
HasLeftPlaced(p_id) ==
  \E k \in 1..Len(order_status_history) :
    /\ order_status_history[k].order_id = p_id
    /\ order_status_history[k].previous_status = "placed"

\* C38: an item is added to an existing order only by the order's owner and
\* only while its status is placed, and no step adds an item to an order that
\* has left placed before.
C38_NoItemsOnceOrderLeftPlaced ==
  /\ []ItemsAddedOnlyByOwnerWhilePlaced
  /\ [][ \A k \in (Len(order_items) + 1)..Len(order_items') :
           order_items'[k].order_id \in 1..Len(orders)
             => /\ orders[order_items'[k].order_id].status = "placed"
                /\ ~ HasLeftPlaced(order_items'[k].order_id) ]_vars

\* C39: every notification is addressed to the owner of the order it is
\* about: none is addressed to a user on account of something another user did.
C39_NotificationsComeFromOwnOrders ==
  \A i \in 1..Len(notifications) :
    /\ notifications[i].order_id \in 1..Len(orders)
    /\ orders[notifications[i].order_id].user_id = notifications[i].user_id

====
